---------------------------- MODULE Spec2Model ----------------------------
(***************************************************************************)
(* Valuation calculators of prajo31/FinancialInstrument: time value of     *)
(* money (TVM class), bond pricing (calculate_bond_price, calculate_price),*)
(* dividend discount valuation (DDMValuation, v1.py) and free cash flow    *)
(* valuation (FCF.py).                                                     *)
(*                                                                         *)
(* Numbers.  The programs compute with Python floats.  The model computes  *)
(* with exact rationals [n |-> numerator, d |-> denominator > 0] in lowest *)
(* terms, so that two equal values are one value.  Rates are drawn from    *)
(* sets whose period factors (1 + rate) have small numerators and          *)
(* denominators, which keeps every intermediate product inside the range   *)
(* of the model checker's integers.  A division by zero is not a rational: *)
(* it is the outcome the Python operation produces there (an exception for *)
(* a Python float, inf or nan for a numpy float).                          *)
(***************************************************************************)
EXTENDS Integers, Sequences, FiniteSets, TLC

(***************************************************************************)
(* Rational arithmetic (the float operators +, -, *, /, ** and round).     *)
(***************************************************************************)
Abs(i) == IF i < 0 THEN 0 - i ELSE i

RECURSIVE GCD(_, _)
GCD(a, b) == IF b = 0 THEN a ELSE GCD(b, a % b)

Rat(n, d) ==
    LET g == GCD(Abs(n), Abs(d))
        s == IF d < 0 THEN 0 - 1 ELSE 1
    IN  [n |-> (s * n) \div g, d |-> (s * d) \div g]

RFromInt(i) == [n |-> i, d |-> 1]

Zero == RFromInt(0)

One == RFromInt(1)

RAdd(a, b) ==
    LET g == GCD(a.d, b.d)
    IN  Rat(a.n * (b.d \div g) + b.n * (a.d \div g), (a.d \div g) * b.d)

RNeg(a) == [n |-> 0 - a.n, d |-> a.d]

RSub(a, b) == RAdd(a, RNeg(b))

RMul(a, b) ==
    LET g1 == GCD(Abs(a.n), b.d)
        g2 == GCD(Abs(b.n), a.d)
    IN  [n |-> (a.n \div g1) * (b.n \div g2), d |-> (a.d \div g2) * (b.d \div g1)]

\* 1 / a, for a # 0
RInv(a) == IF a.n < 0 THEN [n |-> 0 - a.d, d |-> 0 - a.n] ELSE [n |-> a.d, d |-> a.n]

\* a / b, for b # 0
RDiv(a, b) == RMul(a, RInv(b))

\* a < b, by whole parts and then the reciprocals of the fractional parts
\* (no cross product, which would leave the integers of the model checker)
RECURSIVE RLt(_, _)
RLt(a, b) ==
    LET qa == a.n \div a.d
        qb == b.n \div b.d
        ra == a.n % a.d
        rb == b.n % b.d
    IN  IF qa # qb THEN qa < qb
        ELSE IF rb = 0 THEN FALSE
        ELSE IF ra = 0 THEN TRUE
        ELSE RLt([n |-> b.d, d |-> rb], [n |-> a.d, d |-> ra])

RLe(a, b) == ~RLt(b, a)

\* x ** k for an integer k of either sign and x # 0
RECURSIVE RPow(_, _)
RPow(x, k) ==
    IF k = 0 THEN One
    ELSE IF k < 0 THEN RInv(RPow(x, 0 - k))
    ELSE RMul(x, RPow(x, k - 1))

\* sum(seq) of Python: left to right from 0
RECURSIVE RSum(_)
RSum(seq) == IF seq = << >> THEN Zero ELSE RAdd(RSum(SubSeq(seq, 1, Len(seq) - 1)), seq[Len(seq)])

\* round(x, 2): to the nearest hundredth, a tie to the even hundredth
Round2(x) ==
    LET whole == x.n \div x.d
        t     == (x.n % x.d) * 100
        cents == t \div x.d
        rest  == t % x.d
        h     == whole * 100 + cents
        up    == (2 * rest > x.d) \/ (2 * rest = x.d /\ h % 2 = 1)
    IN  Rat(IF up THEN h + 1 ELSE h, 100)

(***************************************************************************)
(* Outcomes of a call: a value, or the exception it raised.                *)
(***************************************************************************)
Value(x) == [kind |-> "value", val |-> x]

Raise(e) == [kind |-> e, val |-> Zero]

NoOutcome == [kind |-> "none", val |-> Zero]

\* a / b on Python floats: ZeroDivisionError when b = 0.0
PyDiv(a, b) == IF b.n = 0 THEN Raise("ZeroDivisionError") ELSE Value(RDiv(a, b))

\* values that are no rational: None of Python, nan and inf of a float
None == [n |-> 0, d |-> 0 - 1]

NaN == [n |-> 0, d |-> 0]

Inf == [n |-> 1, d |-> 0]

NegInf == [n |-> 0 - 1, d |-> 0]

IsNum(x) == x.d > 0

Sgn(x) == IF x.n > 0 THEN 1 ELSE IF x.n < 0 THEN 0 - 1 ELSE 0

\* a / b on numpy floats: inf or nan where b = 0.0, never an exception
NpDiv(a, b) ==
    IF a = NaN \/ b = NaN THEN NaN
    ELSE IF IsNum(a) /\ IsNum(b) THEN
        IF b.n # 0 THEN RDiv(a, b)
        ELSE IF a.n > 0 THEN Inf ELSE IF a.n < 0 THEN NegInf ELSE NaN
    ELSE IF IsNum(b) THEN
        IF Sgn(a) * (IF b.n < 0 THEN 0 - 1 ELSE 1) > 0 THEN Inf ELSE NegInf
    ELSE IF IsNum(a) THEN Zero
    ELSE NaN

\* a + b on floats with inf and nan
NpAdd(a, b) ==
    IF a = NaN \/ b = NaN THEN NaN
    ELSE IF IsNum(a) /\ IsNum(b) THEN RAdd(a, b)
    ELSE IF IsNum(a) THEN b
    ELSE IF IsNum(b) THEN a
    ELSE IF a = b THEN a ELSE NaN

(***************************************************************************)
(* Bounds of the model.                                                    *)
(***************************************************************************)
\* TVM rates are k / RateDen for k in 0 .. RateDen (0% .. 100%)
RateDen == 4

MaxPeriods == 3

MaxAmount == 2

\* longest time to maturity of a bond, in years of 360 days
MaxYears == 2

\* most rows the leaderboard table holds
MaxRows == 2

\* days of a year in calculate_bond_price
DaysPerYear == 360

\* longest dividend series the data provider returns
MaxDividends == 5

\* calendar years in the price history v1.py fetches
HistoryYears == 3

\* longest forecast period of FCF.py in the model (the slider allows 1 .. 10)
MaxForecast == 3

\* browser sessions open on FCF.py at once
MaxSessions == 2

\* the count of rows a session saved is kept up to this
MaxSaved == 4

\* slider moves in one session of a credit score page
MaxMoved == 1

VARIABLES
    tvm,        \* the TVM object: [rate, periods]
    tvm_call,   \* the method called last on it, "none" after construction
    tvm_arg,    \* the argument of that call
    tvm_ret,    \* the outcome of that call
    tvm_prev    \* the call before it on the same object: [call, arg, ret]

tvmVars == <<tvm, tvm_call, tvm_arg, tvm_ret, tvm_prev>>

VARIABLES
    face_value,       \* bond inputs: the widgets' values, rates in percent
    coupon_rate,
    yield_rate,
    settlement_date,  \* dates as day numbers
    maturity_date,
    frequency,
    years,            \* years to maturity of the direct pricer
    bond_call,        \* the pricer called last, "none" before any call
    bond_price,       \* its sum of present values, before any rounding
    bond_ret,         \* the price it returned
    bond_prev,        \* the call before, at another yield: [yield, price, ret]
    leaderboard,      \* rows of table leaderboard of bond_data.db, oldest first
    press,            \* the last Calculate Price press: [app, shown, saved]
    session_app,      \* the script this session runs
    confirm_delete,   \* st.session_state['confirm_delete'], "absent" without the key
    show_leaderboard, \* st.session_state["show_leaderboard"], FALSE without the key
    show_heatmap,
    show_scatter,
    button,           \* the button pressed in the last rerun, "none" before any
    refresh,          \* what that press did as Refresh Data: [shown, rows deleted]
    prev_warned       \* the press before it showed the confirmation warning

bondInputs == <<face_value, coupon_rate, yield_rate, settlement_date, maturity_date,
                frequency, years>>

bondCalc == <<bond_call, bond_price, bond_ret, bond_prev>>

bondApp == <<leaderboard, press>>

bondFlags == <<confirm_delete, show_leaderboard, show_heatmap, show_scatter>>

bondSession == <<session_app, bondFlags, button, refresh, prev_warned>>

bondVars == <<bondInputs, bondCalc, bondApp, bondSession>>

VARIABLES
    ddm_dividends,  \* the dividend series the data provider returns, oldest first
    ddm,            \* the DDMValuation object
    ddm_call,       \* the method called last on it
    ddm_ret,        \* the outcome of that call
    v1_annual,      \* v1.py: the dividends of the history summed by year
    v1_info_yield,  \* v1.py: dividendYield of stock.info, None when absent
    v1_result,      \* v1.py: what annual_dividend_growth_from_history returned
    v1_printed      \* v1.py: how the script ended

ddmVars == <<ddm_dividends, ddm, ddm_call, ddm_ret>>

v1Vars == <<v1_annual, v1_info_yield, v1_result, v1_printed>>

VARIABLES
    fcf,              \* FCF.py: the current free cash flow calculate_fcf returned
    growth_rate,      \* the widgets' values, rates as decimals
    discount_rate,
    forecast_years,   \* variable years of FCF.py
    fcf_forecast,
    terminal_value,
    intrinsic_value,
    sensitivity,      \* the DataFrame: one row per growth value, one cell per discount value
    fcf_pc            \* where the run is: "valued" after line 69, "done" at its end

fcfVars == <<fcf, growth_rate, discount_rate, forecast_years, fcf_forecast,
             terminal_value, intrinsic_value, sensitivity, fcf_pc>>

VARIABLES
    stk_info,           \* valuation-stocks.py: stock.info, a key absent is None
    stk_financials,     \* the latest column of stock.financials and stock.cashflow
    growth_rate_range,  \* the script's parameters
    wacc,
    sim_years,          \* variable years of valuation-stocks.py
    company_values,     \* the lists run_simulation fills
    market_prices,
    sim_pc,             \* where run_simulation is: "loop", "plotted" or the exception raised
    msg_call            \* the last call of multi_stage_growth_model: arguments and result

stkVars == <<stk_info, stk_financials, growth_rate_range, wacc, sim_years,
             company_values, market_prices, sim_pc, msg_call>>

VARIABLES
    viz_face_value,     \* Streamlit-Bond.py: the sidebar's values, rates in percent
    ytm_range,
    years_range,
    coupon_rate_range,
    viz_data,           \* list data of update_visualizations
    viz_Z               \* array Z: one row per year, one cell per rate

vizVars == <<viz_face_value, ytm_range, years_range, coupon_rate_range, viz_data, viz_Z>>

VARIABLES
    ss_rate,            \* TVM-sen1.py: st.session_state.rate and .periods
    ss_periods,
    in_present_value,   \* the number inputs
    in_future_value,
    in_payment_annuity,
    app_tvm,            \* local tvm of main
    fv_result,          \* None where main assigns None
    pv_result,
    sensitivity_data,   \* the rows of the sensitivity table
    app_pc              \* where main is: "calculated", "swept" or the exception raised

appVars == <<ss_rate, ss_periods, in_present_value, in_future_value, in_payment_annuity,
             app_tvm, fv_result, pv_result, sensitivity_data, app_pc>>

VARIABLES
    leaderboard_file,   \* the rows of LEADERBOARD_FILE, leaderboard5.csv
    ss_leaderboard,     \* st.session_state['leaderboard'] of each session
    accepted,           \* the rows accepted since the last Refresh Leaderboard
    board_event         \* the last rerun: [session, kind]

boardVars == <<leaderboard_file, ss_leaderboard, accepted, board_event>>

VARIABLES
    lb_file,        \* the rows of LEADERBOARD_FILE, leaderboard.csv, as written
    lb_latest,      \* per (name, calculation_type): the row of the latest save
    student_name,   \* st.session_state.student_name
    has_submitted,  \* st.session_state.has_submitted
    st_rate,        \* st.session_state.rate
    st_periods,     \* st.session_state.periods
    st_inputs,      \* [present_value, future_value, payment_annuity]
    st_event,       \* the last rerun or call: [kind, raised, saved]
    st_saved,       \* rows this session has saved so far
    st_writes       \* Submit presses of this session that saved a row

simVars == <<lb_file, lb_latest, student_name, has_submitted, st_rate, st_periods,
             st_inputs, st_event, st_saved, st_writes>>

VARIABLES
    credit_app,     \* which credit score script the session runs
    factor_values,  \* the slider of each factor, 0 to 10
    fico_score,     \* calculate_credit_score(factor_values) of the last run
    moved           \* slider moves of this session

creditVars == <<credit_app, factor_values, fico_score, moved>>

vars == <<tvmVars, bondVars, ddmVars, v1Vars, fcfVars, stkVars, vizVars, appVars, boardVars, simVars, creditVars>>

(***************************************************************************)
(* TVM (tvm_simulation.py; the same class in TVM-sen1.py, TVM-Enhance.py,  *)
(* tvm_final_styling.py and tvm-eco.py).                                   *)
(***************************************************************************)
Rates == {Rat(k, RateDen) : k \in 0 .. RateDen}

Periods == 0 .. MaxPeriods

Amounts == {RFromInt(a) : a \in 1 .. MaxAmount}

TVM_init(rate, periods) == [rate |-> rate, periods |-> periods]

\* simple instead of compound interest
future_value_simple(self, present_value) ==
    Value(RMul(present_value, RAdd(One, RMul(self.rate, RFromInt(self.periods)))))

future_value(self, present_value) ==
    Value(RMul(present_value, RPow(RAdd(One, self.rate), self.periods)))

\* discounts over one period too few
present_value_short(self, future_value_) ==
    Value(RDiv(future_value_, RPow(RAdd(One, self.rate), self.periods - 1)))

present_value(self, future_value_) ==
    Value(RDiv(future_value_, RPow(RAdd(One, self.rate), self.periods)))

future_value_annuity(self, payment) ==
    LET q == PyDiv(RSub(RPow(RAdd(One, self.rate), self.periods), One), self.rate)
    IN  IF q.kind = "value" THEN Value(RMul(payment, q.val)) ELSE q

present_value_annuity(self, payment) ==
    PyDiv(RMul(payment, RSub(One, RPow(RAdd(One, self.rate), 0 - self.periods))), self.rate)

NoCall == [call |-> "none", arg |-> Zero, ret |-> NoOutcome]

LastCall == [call |-> tvm_call, arg |-> tvm_arg, ret |-> tvm_ret]

\* an amount typed by the user, or the value a call on a typed amount returned
Arguments ==
    Amounts \cup (IF tvm_ret.kind = "value" /\ tvm_arg \in Amounts THEN {tvm_ret.val} ELSE {})

TVMIdle ==
    /\ tvm = TVM_init(Zero, 0)
    /\ tvm_call = "none"
    /\ tvm_arg = Zero
    /\ tvm_ret = NoOutcome
    /\ tvm_prev = NoCall

TVMInit ==
    /\ tvm \in {TVM_init(r, n) : r \in Rates, n \in Periods}
    /\ tvm_call = "none"
    /\ tvm_arg = Zero
    /\ tvm_ret = NoOutcome
    /\ tvm_prev = NoCall

TVMConstruct ==
    \E r \in Rates, n \in Periods :
        /\ tvm' = TVM_init(r, n)
        /\ tvm_call' = "none"
        /\ tvm_arg' = Zero
        /\ tvm_ret' = NoOutcome
        /\ tvm_prev' = NoCall
        /\ UNCHANGED <<bondVars, ddmVars, v1Vars, fcfVars, stkVars, vizVars, appVars, boardVars, simVars, creditVars>>

CallFutureValue ==
    \E x \in Arguments :
        /\ tvm_call' = "future_value"
        /\ tvm_arg' = x
        /\ tvm_ret' = future_value(tvm, x)
        /\ tvm_prev' = LastCall
        /\ UNCHANGED <<tvm, bondVars, ddmVars, v1Vars, fcfVars, stkVars, vizVars, appVars, boardVars, simVars, creditVars>>

CallPresentValue ==
    \E x \in Arguments :
        /\ tvm_call' = "present_value"
        /\ tvm_arg' = x
        /\ tvm_ret' = present_value(tvm, x)
        /\ tvm_prev' = LastCall
        /\ UNCHANGED <<tvm, bondVars, ddmVars, v1Vars, fcfVars, stkVars, vizVars, appVars, boardVars, simVars, creditVars>>

CallFutureValueAnnuity ==
    \E x \in Amounts :
        /\ tvm_call' = "future_value_annuity"
        /\ tvm_arg' = x
        /\ tvm_ret' = future_value_annuity(tvm, x)
        /\ tvm_prev' = LastCall
        /\ UNCHANGED <<tvm, bondVars, ddmVars, v1Vars, fcfVars, stkVars, vizVars, appVars, boardVars, simVars, creditVars>>

CallPresentValueAnnuity ==
    \E x \in Amounts :
        /\ tvm_call' = "present_value_annuity"
        /\ tvm_arg' = x
        /\ tvm_ret' = present_value_annuity(tvm, x)
        /\ tvm_prev' = LastCall
        /\ UNCHANGED <<tvm, bondVars, ddmVars, v1Vars, fcfVars, stkVars, vizVars, appVars, boardVars, simVars, creditVars>>

TVMNext ==
    \/ TVMConstruct
    \/ CallFutureValue
    \/ CallPresentValue
    \/ CallFutureValueAnnuity
    \/ CallPresentValueAnnuity

(***************************************************************************)
(* Bond pricing: calculate_bond_price of Bond_Valuation/bond-final-enhan.py*)
(* (the same function in Bond-sen.py and bond-heat.py) and calculate_price *)
(* of Streamlit-Bond.py.                                                   *)
(***************************************************************************)
FaceValues == {RFromInt(0), RFromInt(100)}

\* coupon and yield rates in percent: per-period factors 1 + rate/100/frequency
\* of 1, 3/2, 2, 3 and 5
Percents == {RFromInt(0), RFromInt(200), RFromInt(400)}

Frequencies == {1, 2, 4}

SettlementDates == {0, 90}

\* up to MaxYears after the earliest settlement, on and off the quarters,
\* and up to half a year before it
MaturityDates == {q * 90 + e : q \in (0 - 2) .. (4 * MaxYears), e \in {0, 45}}

Years == 0 .. MaxYears

\* int(x): towards zero
PyInt(x) == IF x.n >= 0 THEN x.n \div x.d ELSE 0 - ((0 - x.n) \div x.d)

\* range(n) as the sequence 0, 1, .., n-1
PyRange(n) == [i \in 1 .. (IF n > 0 THEN n ELSE 0) |-> i - 1]

\* a started period counted as a whole one
total_payments_started(settlement, maturity, freq) ==
    LET days_to_maturity == maturity - settlement
        N == Rat(days_to_maturity, DaysPerYear)
    IN  PyInt(RMul(N, RFromInt(freq))) + (IF RMul(N, RFromInt(freq)).d = 1 THEN 0 ELSE 1)

total_payments(settlement, maturity, freq) ==
    LET days_to_maturity == maturity - settlement
        N == Rat(days_to_maturity, DaysPerYear)
    IN  PyInt(RMul(N, RFromInt(freq)))

\* 1 + yield_rate / 100 / frequency
PeriodFactor(yield, freq) ==
    RAdd(One, RDiv(RDiv(yield, RFromInt(100)), RFromInt(freq)))

\* the coupons discounted one period too few
bond_price_sum_early(face, coupon, yield, settlement, maturity, freq) ==
    LET coupon_payment == RDiv(RMul(face, RDiv(coupon, RFromInt(100))), RFromInt(freq))
        n == total_payments(settlement, maturity, freq)
        range == PyRange(n)
        pv_coupons ==
            RSum([i \in DOMAIN range |->
                    RDiv(coupon_payment, RPow(PeriodFactor(yield, freq), range[i]))])
        pv_face_value == RDiv(face, RPow(PeriodFactor(yield, freq), n))
    IN  RAdd(pv_coupons, pv_face_value)

\* compounded at the yield instead of discounted
bond_price_sum_compounded(face, coupon, yield, settlement, maturity, freq) ==
    LET coupon_payment == RDiv(RMul(face, RDiv(coupon, RFromInt(100))), RFromInt(freq))
        n == total_payments(settlement, maturity, freq)
        range == PyRange(n)
        pv_coupons ==
            RSum([i \in DOMAIN range |->
                    RMul(coupon_payment, RPow(PeriodFactor(yield, freq), range[i] + 1))])
        pv_face_value == RMul(face, RPow(PeriodFactor(yield, freq), n))
    IN  RAdd(pv_coupons, pv_face_value)

\* the face value left undiscounted
bond_price_sum_flat(face, coupon, yield, settlement, maturity, freq) ==
    LET coupon_payment == RDiv(RMul(face, RDiv(coupon, RFromInt(100))), RFromInt(freq))
        n == total_payments(settlement, maturity, freq)
        range == PyRange(n)
        pv_coupons ==
            RSum([i \in DOMAIN range |->
                    RDiv(coupon_payment, RPow(PeriodFactor(yield, freq), range[i] + 1))])
    IN  RAdd(pv_coupons, face)

\* bond_price of calculate_bond_price, before it is rounded
bond_price_sum(face, coupon, yield, settlement, maturity, freq) ==
    LET coupon_payment == RDiv(RMul(face, RDiv(coupon, RFromInt(100))), RFromInt(freq))
        n == total_payments(settlement, maturity, freq)
        range == PyRange(n)
        pv_coupons ==
            RSum([i \in DOMAIN range |->
                    RDiv(coupon_payment, RPow(PeriodFactor(yield, freq), range[i] + 1))])
        pv_face_value == RDiv(face, RPow(PeriodFactor(yield, freq), n))
    IN  RAdd(pv_coupons, pv_face_value)

calculate_bond_price(face, coupon, yield, settlement, maturity, freq) ==
    Round2(bond_price_sum(face, coupon, yield, settlement, maturity, freq))

\* the last coupon left out
calculate_price_short(face, market_rate, yrs, coupon) ==
    LET C == RMul(face, coupon)
        F == face
        pv_coupons ==
            RSum([t \in 1 .. (yrs - 1) |-> RDiv(C, RPow(RAdd(One, market_rate), t))])
        pv_face_value == RDiv(F, RPow(RAdd(One, market_rate), yrs))
    IN  RAdd(pv_coupons, pv_face_value)

\* calculate_price of Streamlit-Bond.py: rates as decimals, whole years
calculate_price(face, market_rate, yrs, coupon) ==
    LET C == RMul(face, coupon)
        F == face
        pv_coupons ==
            RSum([t \in 1 .. yrs |-> RDiv(C, RPow(RAdd(One, market_rate), t))])
        pv_face_value == RDiv(F, RPow(RAdd(One, market_rate), yrs))
    IN  RAdd(pv_coupons, pv_face_value)

\* update_visualizations turns the percent ranges into decimals
Decimal(percent) == RDiv(percent, RFromInt(100))

NoPricing == [set |-> FALSE, yield |-> Zero, price |-> Zero, ret |-> Zero]

NoPress == [app |-> "none", shown |-> "none", saved |-> FALSE]

NoRefresh == [shown |-> "none", rows |-> 0]

\* a session before its first button press: bond-heat.py sets its three flags
\* to False, bond-final-enhan.py reads them with a default of False
SessionFresh ==
    /\ confirm_delete = "absent"
    /\ show_leaderboard = FALSE
    /\ show_heatmap = FALSE
    /\ show_scatter = FALSE
    /\ button = "none"
    /\ refresh = NoRefresh
    /\ prev_warned = FALSE

SessionIdle == session_app = "none" /\ SessionFresh

BondCalcIdle ==
    /\ bond_call = "none"
    /\ bond_price = Zero
    /\ bond_ret = Zero
    /\ bond_prev = NoPricing

BondIdle ==
    /\ face_value = Zero
    /\ coupon_rate = Zero
    /\ yield_rate = Zero
    /\ settlement_date = 0
    /\ maturity_date = 0
    /\ frequency = 1
    /\ years = 0
    /\ BondCalcIdle
    /\ leaderboard = << >>
    /\ press = NoPress
    /\ SessionIdle

\* the inputs of a pricing, no pricer called yet
BondInit ==
    /\ face_value \in FaceValues
    /\ coupon_rate \in Percents
    /\ yield_rate \in Percents
    /\ settlement_date \in SettlementDates
    /\ maturity_date \in MaturityDates
    /\ frequency \in Frequencies
    /\ years \in Years
    /\ BondCalcIdle
    /\ leaderboard = << >>
    /\ press = NoPress
    /\ SessionIdle

PriceByDates ==
    /\ bond_call' = "calculate_bond_price"
    /\ bond_price' = bond_price_sum(face_value, coupon_rate, yield_rate,
                                    settlement_date, maturity_date, frequency)
    /\ bond_ret' = calculate_bond_price(face_value, coupon_rate, yield_rate,
                                        settlement_date, maturity_date, frequency)
    /\ bond_prev' = NoPricing
    /\ UNCHANGED <<bondInputs, bondApp, bondSession, tvmVars, ddmVars, v1Vars, fcfVars, stkVars, vizVars, appVars, boardVars, simVars, creditVars>>

PriceByYears ==
    /\ bond_call' = "calculate_price"
    /\ bond_price' = calculate_price(face_value, Decimal(yield_rate), years,
                                     Decimal(coupon_rate))
    /\ bond_ret' = bond_price'
    /\ bond_prev' = NoPricing
    /\ UNCHANGED <<bondInputs, bondApp, bondSession, tvmVars, ddmVars, v1Vars, fcfVars, stkVars, vizVars, appVars, boardVars, simVars, creditVars>>

\* the same pricer again at another yield, everything else as it was
Reprice ==
    \E y \in Percents \ {yield_rate} :
        /\ bond_call # "none"
        /\ yield_rate' = y
        /\ bond_price' =
              IF bond_call = "calculate_bond_price"
              THEN bond_price_sum(face_value, coupon_rate, y,
                                  settlement_date, maturity_date, frequency)
              ELSE calculate_price(face_value, Decimal(y), years, Decimal(coupon_rate))
        /\ bond_ret' =
              IF bond_call = "calculate_bond_price"
              THEN calculate_bond_price(face_value, coupon_rate, y,
                                        settlement_date, maturity_date, frequency)
              ELSE bond_price'
        /\ bond_prev' = [set |-> TRUE, yield |-> yield_rate, price |-> bond_price, ret |-> bond_ret]
        /\ UNCHANGED <<face_value, coupon_rate, settlement_date, maturity_date,
                       frequency, years, bond_call, bondApp, bondSession, tvmVars, ddmVars, v1Vars, fcfVars, stkVars, vizVars, appVars, boardVars, simVars, creditVars>>

BondNext ==
    \/ PriceByDates
    \/ PriceByYears
    \/ Reprice

(***************************************************************************)
(* The Calculate Price handlers of bond-final-enhan.py, Bond-sen.py and    *)
(* bond-heat.py, which share table leaderboard of bond_data.db.            *)
(***************************************************************************)
\* rates within the sliders of the three scripts (0 .. 20 percent)
AppPercents == {RFromInt(0), RFromInt(20)}

AppFrequencies == {1, 4}

AppSettlementDates == {0}

\* a year before, the day of, and a year after the settlement
AppMaturityDates == {0 - DaysPerYear, 0, DaysPerYear}

BondApps == {"bond-final-enhan", "Bond-sen", "bond-heat"}

\* the row save_entry inserts
Row(price) ==
    [student_name |-> "student", company_name |-> "company", cusip |-> "cusip",
     yield |-> yield_rate, price |-> price, coupon_rate |-> coupon_rate,
     settlement_date |-> settlement_date, maturity_date |-> maturity_date,
     face_value |-> face_value]

save_entry(data) == leaderboard' = Append(leaderboard, data)

BondAppInit ==
    /\ face_value = RFromInt(100)
    /\ coupon_rate \in AppPercents
    /\ yield_rate \in AppPercents
    /\ settlement_date \in AppSettlementDates
    /\ maturity_date \in AppMaturityDates
    /\ frequency \in AppFrequencies
    /\ years = 0
    /\ BondCalcIdle
    /\ leaderboard = << >>
    /\ press = NoPress
    /\ session_app \in BondApps
    /\ SessionFresh

\* the user edits the widgets: the script reruns with no button pressed
SetInputs ==
    /\ coupon_rate' \in AppPercents
    /\ yield_rate' \in AppPercents
    /\ maturity_date' \in AppMaturityDates
    /\ frequency' \in AppFrequencies
    /\ press' = NoPress
    /\ UNCHANGED <<face_value, settlement_date, years, bondCalc, leaderboard, bondSession, tvmVars, ddmVars, v1Vars, fcfVars, stkVars, vizVars, appVars, boardVars, simVars, creditVars>>

\* a rerun with Calculate Price pressed touches no flag of the session
PressCalculatePrice ==
    /\ button' = "Calculate Price"
    /\ refresh' = NoRefresh
    /\ prev_warned' = (refresh.shown = "warning")
    /\ UNCHANGED <<session_app, bondFlags>>

\* the call price = calculate_bond_price(...) of a handler
CallPricer ==
    /\ bond_call' = "calculate_bond_price"
    /\ bond_price' = bond_price_sum(face_value, coupon_rate, yield_rate,
                                    settlement_date, maturity_date, frequency)
    /\ bond_ret' = calculate_bond_price(face_value, coupon_rate, yield_rate,
                                        settlement_date, maturity_date, frequency)
    /\ bond_prev' = NoPricing

\* bond-final-enhan.py: the dates are validated first
CalculatePriceFinalEnhan ==
    \/ /\ session_app = "bond-final-enhan"
       /\ maturity_date <= settlement_date
       /\ press' = [app |-> "bond-final-enhan", shown |-> "error", saved |-> FALSE]
       /\ PressCalculatePrice
       /\ UNCHANGED <<bondInputs, bondCalc, leaderboard, tvmVars, ddmVars, v1Vars, fcfVars, stkVars, vizVars, appVars, boardVars, simVars, creditVars>>
    \/ /\ session_app = "bond-final-enhan"
       /\ ~(maturity_date <= settlement_date)
       /\ Len(leaderboard) < MaxRows
       /\ CallPricer
       /\ PressCalculatePrice
       /\ save_entry(Row(bond_ret'))
       /\ press' = [app |-> "bond-final-enhan", shown |-> "price", saved |-> TRUE]
       /\ UNCHANGED <<bondInputs, tvmVars, ddmVars, v1Vars, fcfVars, stkVars, vizVars, appVars, boardVars, simVars, creditVars>>

\* Bond-sen.py: no validation
CalculatePriceSen ==
    /\ session_app = "Bond-sen"
    /\ Len(leaderboard) < MaxRows
    /\ CallPricer
    /\ PressCalculatePrice
    /\ save_entry(Row(bond_ret'))
    /\ press' = [app |-> "Bond-sen", shown |-> "price", saved |-> TRUE]
    /\ UNCHANGED <<bondInputs, tvmVars, ddmVars, v1Vars, fcfVars, stkVars, vizVars, appVars, boardVars, simVars, creditVars>>

\* bond-heat.py: no validation
CalculatePriceHeat ==
    /\ session_app = "bond-heat"
    /\ Len(leaderboard) < MaxRows
    /\ CallPricer
    /\ PressCalculatePrice
    /\ save_entry(Row(bond_ret'))
    /\ press' = [app |-> "bond-heat", shown |-> "price", saved |-> TRUE]
    /\ UNCHANGED <<bondInputs, tvmVars, ddmVars, v1Vars, fcfVars, stkVars, vizVars, appVars, boardVars, simVars, creditVars>>

BondAppNext ==
    \/ SetInputs
    \/ CalculatePriceFinalEnhan
    \/ CalculatePriceSen
    \/ CalculatePriceHeat

(***************************************************************************)
(* The view buttons and the Refresh Data button of bond-final-enhan.py and *)
(* of bond-heat.py.                                                        *)
(***************************************************************************)
ViewApps == {"bond-final-enhan", "bond-heat"}

\* a session of one of the two scripts, the table empty
BondViewsInit ==
    /\ face_value = RFromInt(100)
    /\ coupon_rate = RFromInt(20)
    /\ yield_rate = RFromInt(20)
    /\ settlement_date = 0
    /\ maturity_date \in {0, DaysPerYear}
    /\ frequency = 1
    /\ years = 0
    /\ BondCalcIdle
    /\ leaderboard = << >>
    /\ press = NoPress
    /\ session_app \in ViewApps
    /\ SessionFresh

\* a rerun with a button other than Calculate Price and Refresh Data pressed
PressOther(b) ==
    /\ button' = b
    /\ refresh' = NoRefresh
    /\ prev_warned' = (refresh.shown = "warning")
    /\ press' = NoPress

\* bond-heat.py: each view button sets its flag and clears the other two
ShowLeaderboardHeat ==
    /\ session_app = "bond-heat"
    /\ show_leaderboard' = TRUE
    /\ show_heatmap' = FALSE
    /\ show_scatter' = FALSE
    /\ PressOther("Show Leaderboard")
    /\ UNCHANGED <<session_app, confirm_delete, bondInputs, bondCalc, leaderboard,
                   tvmVars, ddmVars, v1Vars, fcfVars, stkVars, vizVars, appVars, boardVars, simVars, creditVars>>

\* the other two flags left as they were
ShowHeatmapHeat_only ==
    /\ session_app = "bond-heat"
    /\ show_heatmap' = TRUE
    /\ PressOther("Show Heatmap")
    /\ UNCHANGED <<show_leaderboard, show_scatter, session_app, confirm_delete, bondInputs, bondCalc, leaderboard,
                   tvmVars, ddmVars, v1Vars, fcfVars, stkVars, vizVars, appVars, boardVars, simVars, creditVars>>

ShowHeatmapHeat ==
    /\ session_app = "bond-heat"
    /\ show_heatmap' = TRUE
    /\ show_leaderboard' = FALSE
    /\ show_scatter' = FALSE
    /\ PressOther("Show Heatmap")
    /\ UNCHANGED <<session_app, confirm_delete, bondInputs, bondCalc, leaderboard,
                   tvmVars, ddmVars, v1Vars, fcfVars, stkVars, vizVars, appVars, boardVars, simVars, creditVars>>

ShowScatterHeat ==
    /\ session_app = "bond-heat"
    /\ show_scatter' = TRUE
    /\ show_leaderboard' = FALSE
    /\ show_heatmap' = FALSE
    /\ PressOther("Show Scatter Plot")
    /\ UNCHANGED <<session_app, confirm_delete, bondInputs, bondCalc, leaderboard,
                   tvmVars, ddmVars, v1Vars, fcfVars, stkVars, vizVars, appVars, boardVars, simVars, creditVars>>

\* bond-heat.py: Refresh Data deletes at once
RefreshDataHeat ==
    /\ session_app = "bond-heat"
    /\ leaderboard' = << >>
    /\ show_leaderboard' = FALSE
    /\ show_heatmap' = FALSE
    /\ show_scatter' = FALSE
    /\ button' = "Refresh Data"
    /\ refresh' = [shown |-> "deleted", rows |-> Len(leaderboard)]
    /\ prev_warned' = (refresh.shown = "warning")
    /\ press' = NoPress
    /\ UNCHANGED <<session_app, confirm_delete, bondInputs, bondCalc,
                   tvmVars, ddmVars, v1Vars, fcfVars, stkVars, vizVars, appVars, boardVars, simVars, creditVars>>

\* bond-final-enhan.py: each view button sets its own flag only
ShowLeaderboardFinalEnhan ==
    /\ session_app = "bond-final-enhan"
    /\ show_leaderboard' = TRUE
    /\ PressOther("Show Leaderboard")
    /\ UNCHANGED <<show_heatmap, show_scatter, session_app, confirm_delete, bondInputs, bondCalc, leaderboard,
                   tvmVars, ddmVars, v1Vars, fcfVars, stkVars, vizVars, appVars, boardVars, simVars, creditVars>>

ShowHeatmapFinalEnhan ==
    /\ session_app = "bond-final-enhan"
    /\ show_heatmap' = TRUE
    /\ PressOther("Show Heatmap")
    /\ UNCHANGED <<show_leaderboard, show_scatter, session_app, confirm_delete, bondInputs, bondCalc, leaderboard,
                   tvmVars, ddmVars, v1Vars, fcfVars, stkVars, vizVars, appVars, boardVars, simVars, creditVars>>

ShowScatterFinalEnhan ==
    /\ session_app = "bond-final-enhan"
    /\ show_scatter' = TRUE
    /\ PressOther("Show Scatter Plot")
    /\ UNCHANGED <<show_leaderboard, show_heatmap, session_app, confirm_delete, bondInputs, bondCalc, leaderboard,
                   tvmVars, ddmVars, v1Vars, fcfVars, stkVars, vizVars, appVars, boardVars, simVars, creditVars>>

\* bond-final-enhan.py: Refresh Data warns while the session has no key
\* 'confirm_delete', and deletes once it has the key
RefreshDataFinalEnhan ==
    \/ /\ session_app = "bond-final-enhan"
       /\ confirm_delete = "absent"
       /\ confirm_delete' = "True"
       /\ button' = "Refresh Data"
       /\ refresh' = [shown |-> "warning", rows |-> 0]
       /\ prev_warned' = (refresh.shown = "warning")
       /\ press' = NoPress
       /\ UNCHANGED <<session_app, show_leaderboard, show_heatmap, show_scatter,
                      bondInputs, bondCalc, leaderboard,
                      tvmVars, ddmVars, v1Vars, fcfVars, stkVars, vizVars, appVars, boardVars, simVars, creditVars>>
    \/ /\ session_app = "bond-final-enhan"
       /\ confirm_delete # "absent"
       /\ leaderboard' = << >>
       /\ confirm_delete' = "False"
       /\ show_leaderboard' = FALSE
       /\ show_heatmap' = FALSE
       /\ show_scatter' = FALSE
       /\ button' = "Refresh Data"
       /\ refresh' = [shown |-> "deleted", rows |-> Len(leaderboard)]
       /\ prev_warned' = (refresh.shown = "warning")
       /\ press' = NoPress
       /\ UNCHANGED <<session_app, bondInputs, bondCalc,
                      tvmVars, ddmVars, v1Vars, fcfVars, stkVars, vizVars, appVars, boardVars, simVars, creditVars>>

BondViewsNext ==
    \/ CalculatePriceFinalEnhan
    \/ CalculatePriceHeat
    \/ ShowLeaderboardHeat
    \/ ShowHeatmapHeat
    \/ ShowScatterHeat
    \/ RefreshDataHeat
    \/ ShowLeaderboardFinalEnhan
    \/ ShowHeatmapFinalEnhan
    \/ ShowScatterFinalEnhan
    \/ RefreshDataFinalEnhan

(***************************************************************************)
(* Dividend discount valuation: class DDMValuation of                      *)
(* Stock-Valuation/Stock_Valuation.py.                                     *)
(***************************************************************************)
DividendAmounts == {RFromInt(1), RFromInt(2)}

DividendSeries == UNION {[1 .. k -> DividendAmounts] : k \in 0 .. MaxDividends}

RiskFreeRates == {Zero, Rat(1, 4)}

MarketReturns == {Zero, Rat(1, 2)}

\* beta of stock.info, None when the key is absent
Betas == {None, Zero, One, RFromInt(2)}

NoDividendsFound == "ValueError: No dividends found."

NoBetaFound == "ValueError: No beta found."

NotEnoughDividends == "ValueError: Not enough dividend data to calculate quarterly growth rate."

DataNotFetched == "ValueError: Data not fetched. Please call fetch_data()."

DiscountNotAboveGrowth == "ValueError: Discount rate must be greater than growth rate."

\* an object whose construction raised: no method can be called on it
NoDDM ==
    [built |-> FALSE, risk_free_rate |-> None, market_return |-> None,
     discount_rate |-> None, growth_rate |-> None, dividend |-> None]

calculate_discount_rate(rf, rm, beta) ==
    IF beta = None THEN Raise(NoBetaFound)
    ELSE Value(RAdd(rf, RMul(beta, RSub(rm, rf))))

\* DDMValuation(ticker, api_key): the object and the outcome of the construction
DDMValuation(rf, rm, beta) ==
    LET rate == calculate_discount_rate(rf, rm, beta)
    IN  IF rate.kind = "value"
        THEN [self |-> [built |-> TRUE, risk_free_rate |-> rf, market_return |-> rm,
                        discount_rate |-> rate.val, growth_rate |-> None,
                        dividend |-> None],
              ret |-> NoOutcome]
        ELSE [self |-> NoDDM, ret |-> rate]

\* fetch_dividend: raises on an empty series, else returns the series
fetch_dividend(dividends) ==
    IF dividends = << >> THEN Raise(NoDividendsFound) ELSE NoOutcome

\* counted from the front of the series
ILocFront(series, k) == series[k]

\* series.iloc[-k]
ILocBack(series, k) == series[Len(series) - k + 1]

\* the object after the call and the outcome of the call
calculate_dividends_eagr(self, dividends) ==
    IF fetch_dividend(dividends) # NoOutcome
    THEN [self |-> self, ret |-> fetch_dividend(dividends)]
    ELSE IF Len(dividends) < 4
    THEN [self |-> self, ret |-> Raise(NotEnoughDividends)]
    ELSE LET start_dividend == ILocBack(dividends, 4)
             end_dividend == ILocBack(dividends, 1)
             quarterly_growth_rate == RSub(RDiv(end_dividend, start_dividend), One)
             eagr_quarterly == RSub(RPow(RAdd(One, quarterly_growth_rate), 4), One)
         IN  [self |-> [self EXCEPT !.growth_rate = eagr_quarterly],
              ret |-> Value(eagr_quarterly)]

\* the discount rate not compared with the growth rate
calculate_value_unchecked(self) ==
    IF self.dividend = None \/ self.growth_rate = None
    THEN Raise(DataNotFetched)
    ELSE Value(NpDiv(self.dividend, RSub(self.discount_rate, self.growth_rate)))

calculate_value(self) ==
    IF self.dividend = None \/ self.growth_rate = None
    THEN Raise(DataNotFetched)
    ELSE IF RLe(self.discount_rate, self.growth_rate)
    THEN Raise(DiscountNotAboveGrowth)
    ELSE Value(NpDiv(self.dividend, RSub(self.discount_rate, self.growth_rate)))

run_valuation(self, dividends) ==
    IF fetch_dividend(dividends) # NoOutcome
    THEN [self |-> self, ret |-> fetch_dividend(dividends)]
    ELSE LET fetched == [self EXCEPT !.dividend = ILocBack(dividends, 1)]
             grown == calculate_dividends_eagr(fetched, dividends)
         IN  IF grown.ret.kind # "value" THEN grown
             ELSE [self |-> grown.self, ret |-> calculate_value(grown.self)]

DDMIdle ==
    /\ ddm_dividends = << >>
    /\ ddm = NoDDM
    /\ ddm_call = "none"
    /\ ddm_ret = NoOutcome

\* after valuation = DDMValuation(ticker, api_key)
DDMInit ==
    /\ ddm_dividends \in DividendSeries
    /\ \E rf \in RiskFreeRates, rm \in MarketReturns, beta \in Betas :
        /\ ddm = DDMValuation(rf, rm, beta).self
        /\ ddm_ret = DDMValuation(rf, rm, beta).ret
    /\ ddm_call = "__post_init__"

CallCalculateDividendsEagr ==
    /\ ddm.built
    /\ ddm_call' = "calculate_dividends_eagr"
    /\ ddm' = calculate_dividends_eagr(ddm, ddm_dividends).self
    /\ ddm_ret' = calculate_dividends_eagr(ddm, ddm_dividends).ret
    /\ UNCHANGED <<ddm_dividends, v1Vars, tvmVars, bondVars, fcfVars, stkVars, vizVars, appVars, boardVars, simVars, creditVars>>

CallCalculateValue ==
    /\ ddm.built
    /\ ddm_call' = "calculate_value"
    /\ ddm_ret' = calculate_value(ddm)
    /\ UNCHANGED <<ddm, ddm_dividends, v1Vars, tvmVars, bondVars, fcfVars, stkVars, vizVars, appVars, boardVars, simVars, creditVars>>

CallRunValuation ==
    /\ ddm.built
    /\ ddm_call' = "run_valuation"
    /\ ddm' = run_valuation(ddm, ddm_dividends).self
    /\ ddm_ret' = run_valuation(ddm, ddm_dividends).ret
    /\ UNCHANGED <<ddm_dividends, v1Vars, tvmVars, bondVars, fcfVars, stkVars, vizVars, appVars, boardVars, simVars, creditVars>>

(***************************************************************************)
(* Dividend discount valuation: script corporate-stock-valuation/v1.py.    *)
(***************************************************************************)
AnnualTotals == {Zero, One, RFromInt(2)}

\* column Dividends of the history summed by calendar year, oldest first
AnnualDividends == UNION {[1 .. k -> AnnualTotals] : k \in 1 .. HistoryYears}

InfoYields == {None, Zero, Rat(1, 2)}

\* Series.pct_change() followed by replace(inf, nan).dropna(): the changes
\* from a year with a nonzero total, by position
valid_growth_rates(annual) ==
    LET valid == {i \in 2 .. Len(annual) : annual[i - 1] # Zero}
    IN  [i \in valid |-> RSub(RDiv(annual[i], annual[i - 1]), One)]

RECURSIVE SumOver(_, _)
SumOver(f, S) ==
    IF S = {} THEN Zero
    ELSE LET i == CHOOSE j \in S : \A k \in S : j <= k
         IN  RAdd(f[i], SumOver(f, S \ {i}))

\* Series.mean(): nan for an empty series
Mean(f) ==
    IF DOMAIN f = {} THEN NaN
    ELSE RDiv(SumOver(f, DOMAIN f), RFromInt(Cardinality(DOMAIN f)))

NoResult == [kind |-> "none", growth |-> NaN, dividend_yield |-> Zero,
             required_return |-> NaN, price |-> None]

annual_dividend_growth_from_history(annual, info_yield) ==
    IF SumOver(annual, DOMAIN annual) = Zero
    THEN [NoResult EXCEPT !.kind = "message"]
    ELSE LET annualized_growth == Mean(valid_growth_rates(annual))
             dividend_yield == IF info_yield = None THEN Zero ELSE info_yield
             required_return == NpAdd(dividend_yield, annualized_growth)
             D0 == annual[Len(annual)]
             D1 == IF annualized_growth = NaN THEN NaN
                   ELSE RMul(D0, RAdd(One, annualized_growth))
             stock_price ==
                 IF required_return # NaN /\ annualized_growth # NaN
                    /\ RLt(annualized_growth, required_return)
                 THEN NpDiv(D1, RSub(required_return, annualized_growth))
                 ELSE None
         IN  [kind |-> "dict", growth |-> annualized_growth,
              dividend_yield |-> dividend_yield,
              required_return |-> required_return, price |-> stock_price]

\* the prints after the call: format :.2f raises TypeError on None
PrintResult(result) ==
    IF result.kind = "message" THEN "message"
    ELSE IF result.price = None THEN "TypeError"
    ELSE "price"

V1Idle ==
    /\ v1_annual = << >>
    /\ v1_info_yield = None
    /\ v1_result = NoResult
    /\ v1_printed = "none"

\* what the data provider holds when the script starts
V1Init ==
    /\ v1_annual \in AnnualDividends
    /\ v1_info_yield \in InfoYields
    /\ v1_result = NoResult
    /\ v1_printed = "none"

\* the script from its first line to its last
RunV1 ==
    /\ v1_annual # << >>
    /\ v1_printed = "none"
    /\ v1_result' = annual_dividend_growth_from_history(v1_annual, v1_info_yield)
    /\ v1_printed' = PrintResult(annual_dividend_growth_from_history(v1_annual, v1_info_yield))
    /\ UNCHANGED <<v1_annual, v1_info_yield, ddmVars, tvmVars, bondVars, fcfVars, stkVars, vizVars, appVars, boardVars, simVars, creditVars>>

DDMNext ==
    \/ CallCalculateDividendsEagr
    \/ CallCalculateValue
    \/ CallRunValuation
    \/ RunV1

(***************************************************************************)
(* Free cash flow valuation: script FCF.py.  fcf is a numpy float, so a    *)
(* division by 0.0 gives inf or nan and the script goes on.                *)
(***************************************************************************)
CashFlows == {RFromInt(k) : k \in (0 - 1) .. 2}

GrowthPercents == {RFromInt(0), RFromInt(50), RFromInt(100)}

DiscountPercents == {RFromInt(0), RFromInt(50), RFromInt(100), RFromInt(200)}

ForecastYears == 1 .. MaxForecast

\* range(1, years + 1) as a sequence
PyRange1(n) == [i \in 1 .. n |-> i]

\* mutation: the forecast starts at the current year
forecast_from_current(f, g, n) ==
    [t \in 1 .. n |-> RMul(f, RPow(RAdd(One, g), t - 1))]

\* [fcf * (1 + growth_rate) ** t for t in range(1, years + 1)]
forecast(f, g, n) ==
    [i \in 1 .. n |-> RMul(f, RPow(RAdd(One, g), PyRange1(n)[i]))]

terminal(f, g, r, n) ==
    NpDiv(forecast(f, g, n)[n], RSub(r, g))

\* [fcf_t / (1 + discount_rate) ** t for t, fcf_t in enumerate(fcf_forecast, start=1)]
discounted(f, g, r, n) ==
    [t \in 1 .. n |-> NpDiv(forecast(f, g, n)[t], RPow(RAdd(One, r), t))]

RECURSIVE NpSum(_)
NpSum(seq) ==
    IF seq = << >> THEN Zero
    ELSE NpAdd(NpSum(SubSeq(seq, 1, Len(seq) - 1)), seq[Len(seq)])

intrinsic(f, g, r, n) ==
    NpAdd(NpSum(discounted(f, g, r, n)),
          NpDiv(terminal(f, g, r, n), RPow(RAdd(One, r), n)))

\* the axes of the sensitivity table (np.linspace in the script)
growth_values == <<Zero, Rat(1, 2), One>>

discount_values == <<Rat(1, 2), One, RFromInt(2)>>

\* mutation: the terminal value is not discounted
sensitivity_cell_undiscounted(f, g, r, n) ==
    NpSum([t \in 1 .. n |-> NpDiv(RMul(f, RPow(RAdd(One, g), PyRange1(n)[t])),
                                  RPow(RAdd(One, r), PyRange1(n)[t]))]
          \o <<NpDiv(RMul(f, RPow(RAdd(One, g), n)), RSub(r, g))>>)

\* sum([fcf * (1 + g) ** t / (1 + r) ** t for t in range(1, years + 1)] +
\*     [fcf * (1 + g) ** years / (r - g) / (1 + r) ** years])
sensitivity_cell(f, g, r, n) ==
    NpSum([t \in 1 .. n |-> NpDiv(RMul(f, RPow(RAdd(One, g), PyRange1(n)[t])),
                                  RPow(RAdd(One, r), PyRange1(n)[t]))]
          \o <<NpDiv(NpDiv(RMul(f, RPow(RAdd(One, g), n)), RSub(r, g)),
                     RPow(RAdd(One, r), n))>>)

\* the table: for g in growth_values, for r in discount_values
sensitivity_table(f, n) ==
    [i \in 1 .. Len(growth_values) |->
        [j \in 1 .. Len(discount_values) |->
            sensitivity_cell(f, growth_values[i], discount_values[j], n)]]

\* a run of the script with the widgets at rates g and r and n years, up to the
\* intrinsic value; the table of the run before is gone
Rerun(f, g, r, n) ==
    /\ fcf' = f
    /\ growth_rate' = g
    /\ discount_rate' = r
    /\ forecast_years' = n
    /\ fcf_forecast' = forecast(f, g, n)
    /\ terminal_value' = terminal(f, g, r, n)
    /\ intrinsic_value' = intrinsic(f, g, r, n)
    /\ sensitivity' = << >>
    /\ fcf_pc' = "valued"

FCFIdle ==
    /\ fcf = Zero
    /\ growth_rate = Zero
    /\ discount_rate = One
    /\ forecast_years = 1
    /\ fcf_forecast = forecast(Zero, Zero, 1)
    /\ terminal_value = terminal(Zero, Zero, One, 1)
    /\ intrinsic_value = intrinsic(Zero, Zero, One, 1)
    /\ sensitivity = sensitivity_table(Zero, 1)
    /\ fcf_pc = "none"

\* the page after a run of the script
FCFInit ==
    \E f \in CashFlows, g \in GrowthPercents, r \in DiscountPercents, n \in ForecastYears :
        /\ fcf = f
        /\ growth_rate = Decimal(g)
        /\ discount_rate = Decimal(r)
        /\ forecast_years = n
        /\ fcf_forecast = forecast(f, Decimal(g), n)
        /\ terminal_value = terminal(f, Decimal(g), Decimal(r), n)
        /\ intrinsic_value = intrinsic(f, Decimal(g), Decimal(r), n)
        /\ sensitivity = sensitivity_table(f, n)
        /\ fcf_pc = "done"

\* the user edits a widget, the script reruns
SetGrowthRate ==
    /\ fcf_pc = "done"
    /\ \E g \in GrowthPercents :
        Rerun(fcf, Decimal(g), discount_rate, forecast_years)
    /\ UNCHANGED <<tvmVars, bondVars, ddmVars, v1Vars, stkVars, vizVars, appVars, boardVars, simVars, creditVars>>

SetDiscountRate ==
    /\ fcf_pc = "done"
    /\ \E r \in DiscountPercents :
        Rerun(fcf, growth_rate, Decimal(r), forecast_years)
    /\ UNCHANGED <<tvmVars, bondVars, ddmVars, v1Vars, stkVars, vizVars, appVars, boardVars, simVars, creditVars>>

SetForecastYears ==
    /\ fcf_pc = "done"
    /\ \E n \in ForecastYears :
        Rerun(fcf, growth_rate, discount_rate, n)
    /\ UNCHANGED <<tvmVars, bondVars, ddmVars, v1Vars, stkVars, vizVars, appVars, boardVars, simVars, creditVars>>

\* the user enters another ticker: another free cash flow
SetTicker ==
    /\ fcf_pc = "done"
    /\ \E f \in CashFlows :
        Rerun(f, growth_rate, discount_rate, forecast_years)
    /\ UNCHANGED <<tvmVars, bondVars, ddmVars, v1Vars, stkVars, vizVars, appVars, boardVars, simVars, creditVars>>

\* the run goes on: the sensitivity table and the rest of the page
SensitivityAnalysis ==
    /\ fcf_pc = "valued"
    /\ sensitivity' = sensitivity_table(fcf, forecast_years)
    /\ fcf_pc' = "done"
    /\ UNCHANGED <<fcf, growth_rate, discount_rate, forecast_years, fcf_forecast,
                   terminal_value, intrinsic_value,
                   tvmVars, bondVars, ddmVars, v1Vars, stkVars, vizVars, appVars, boardVars, simVars, creditVars>>

FCFNext ==
    \/ SensitivityAnalysis
    \/ SetGrowthRate
    \/ SetDiscountRate
    \/ SetForecastYears
    \/ SetTicker

(***************************************************************************)
(* Company valuation: script corporate-stock-valuation/valuation-stocks.py.*)
(* The cash flow comes from a DataFrame, so it is a numpy float.           *)
(***************************************************************************)
Billion == 1000000000

\* the module's global tax_rate, read by calculate_fcf
tax_rate == Rat(21, 100)

\* stock.info: currentPrice and totalCash, and whether it has a key 'cash'
StockInfos ==
    {[currentPrice |-> p, totalCash |-> c, has_cash |-> h] :
        p \in {None, One}, c \in {None, RFromInt(2)}, h \in BOOLEAN}

\* EBIT, Capital Expenditure, Depreciation And Amortization and
\* Change In Working Capital, in dollars
Financials ==
    {[EBIT |-> RFromInt(e * Billion), CapitalExpenditure |-> RFromInt(0 - (x * Billion)),
      Depreciation |-> RFromInt(d * Billion), WorkingCapitalChange |-> Zero] :
        e \in {0, 1}, x \in {0, 1}, d \in {0, 1}}

StockRates == {Zero, Rat(1, 2), One}

GrowthRanges == {<<Zero, Rat(1, 2)>>, <<Rat(1, 2), One>>}

StockYears == (0 - 1) .. MaxForecast

KeyError == "KeyError"

\* the dictionary fetch_data returns, or the exception it raises
fetch_data(info, fin) ==
    IF info.currentPrice = None THEN Raise(KeyError)
    ELSE IF info.has_cash /\ info.totalCash = None THEN Raise(KeyError)
    ELSE [kind |-> "value",
          val |-> [market_price |-> info.currentPrice,
                   cash |-> IF info.has_cash THEN info.totalCash ELSE Zero,
                   operating_income |-> fin.EBIT,
                   capex |-> RNeg(fin.CapitalExpenditure),
                   depreciation |-> fin.Depreciation,
                   working_capital_change |-> fin.WorkingCapitalChange]]

calculate_fcf(operating_income, capex, depreciation, working_capital_change) ==
    RDiv(RAdd(RSub(RSub(RMul(operating_income, RSub(One, tax_rate)), capex),
                   working_capital_change), depreciation),
         RFromInt(Billion))

constant_growth_model(fcf_last, g, r) ==
    NpDiv(RMul(fcf_last, RAdd(One, g)), RSub(r, g))

discount_fcf(f, r, n) == NpDiv(f, RPow(RAdd(One, r), n))

multi_stage_growth_model(f, g1, g2, r, years_initial, years_terminal) ==
    LET stage == [i \in 1 .. (IF years_initial > 0 THEN years_initial ELSE 0) |->
                      discount_fcf(RMul(f, RPow(RAdd(One, g1), i)), r, i)]
        fcf_terminal == RMul(RMul(f, RPow(RAdd(One, g1), years_initial)), RAdd(One, g2))
        tv == constant_growth_model(fcf_terminal, g2, r)
    IN  NpSum(Append(stage, NpDiv(tv, RPow(RAdd(One, r), years_initial))))

\* [company_value, price_to_value, market_price] or the exception of fetch_data
estimate_company_value(info, fin, g, r, n) ==
    LET data == fetch_data(info, fin)
    IN  IF data.kind # "value" THEN data
        ELSE LET f == calculate_fcf(data.val.operating_income, data.val.capex,
                                    data.val.depreciation,
                                    data.val.working_capital_change)
                 company_value == NpAdd(multi_stage_growth_model(f, g, g, r, n, 0),
                                        data.val.cash)
             IN  [kind |-> "value",
                  val |-> [company_value |-> company_value,
                           price_to_value |-> NpDiv(company_value, data.val.market_price),
                           market_price |-> data.val.market_price,
                           fcf |-> f]]

NoMultiStage ==
    [fcf |-> Zero, g1 |-> Zero, g2 |-> Zero, wacc |-> One, years_initial |-> 1,
     years_terminal |-> 0, ret |-> None]

MultiStage(f, g1, g2, r, n1, n2) ==
    [fcf |-> f, g1 |-> g1, g2 |-> g2, wacc |-> r, years_initial |-> n1,
     years_terminal |-> n2, ret |-> multi_stage_growth_model(f, g1, g2, r, n1, n2)]

StocksIdle ==
    /\ stk_info = [currentPrice |-> None, totalCash |-> None, has_cash |-> FALSE]
    /\ stk_financials = [EBIT |-> Zero, CapitalExpenditure |-> Zero,
                         Depreciation |-> Zero, WorkingCapitalChange |-> Zero]
    /\ growth_rate_range = << >>
    /\ wacc = One
    /\ sim_years = 1
    /\ company_values = << >>
    /\ market_prices = << >>
    /\ sim_pc = "none"
    /\ msg_call = NoMultiStage

\* run_simulation(ticker, growth_rate_range, wacc, years) is entered
StocksInit ==
    /\ stk_info \in StockInfos
    /\ stk_financials \in Financials
    /\ growth_rate_range \in GrowthRanges
    /\ wacc \in StockRates \ {Zero}
    /\ sim_years \in StockYears
    /\ company_values = << >>
    /\ market_prices = << >>
    /\ sim_pc = "loop"
    /\ msg_call = NoMultiStage

\* one turn of the loop of run_simulation
SimulationStep ==
    /\ sim_pc = "loop"
    /\ Len(company_values) < Len(growth_rate_range)
    /\ LET g == growth_rate_range[Len(company_values) + 1]
           est == estimate_company_value(stk_info, stk_financials, g, wacc, sim_years)
       IN  IF est.kind # "value"
           THEN /\ sim_pc' = est.kind
                /\ UNCHANGED <<company_values, market_prices, msg_call>>
           ELSE /\ company_values' = Append(company_values, est.val.company_value)
                /\ market_prices' = Append(market_prices, est.val.market_price)
                /\ msg_call' = MultiStage(est.val.fcf, g, g, wacc, sim_years, 0)
                /\ sim_pc' = "loop"
    /\ UNCHANGED <<stk_info, stk_financials, growth_rate_range, wacc, sim_years,
                   tvmVars, bondVars, ddmVars, v1Vars, fcfVars, vizVars, appVars, boardVars, simVars, creditVars>>

\* plot_results after the loop
PlotResults ==
    /\ sim_pc = "loop"
    /\ Len(company_values) = Len(growth_rate_range)
    /\ sim_pc' = "plotted"
    /\ UNCHANGED <<stk_info, stk_financials, growth_rate_range, wacc, sim_years,
                   company_values, market_prices, msg_call,
                   tvmVars, bondVars, ddmVars, v1Vars, fcfVars, vizVars, appVars, boardVars, simVars, creditVars>>

\* multi_stage_growth_model called on its own, the module once loaded, on a
\* cash flow, the script's wacc and years, two growth rates and a second horizon
CallMultiStage ==
    /\ sim_pc = "plotted"
    /\ \E f \in {RFromInt(2)}, g1 \in StockRates, g2 \in StockRates, n2 \in {0, 1} :
        msg_call' = MultiStage(f, g1, g2, wacc, sim_years, n2)
    /\ UNCHANGED <<stk_info, stk_financials, growth_rate_range, wacc, sim_years,
                   company_values, market_prices, sim_pc,
                   tvmVars, bondVars, ddmVars, v1Vars, fcfVars, vizVars, appVars, boardVars, simVars, creditVars>>

StocksNext ==
    \/ SimulationStep
    \/ PlotResults
    \/ CallMultiStage

(***************************************************************************)
(* Bond price visualisation: script Streamlit-Bond.py.                     *)
(***************************************************************************)
\* step of the YTM slider and of np.arange over it, in percent
YtmStep == 200

YtmPercents == {0, YtmStep, 2 * YtmStep}

CouponPercents == {0, 200, 400}

\* points of np.linspace over the coupon range
CouponPoints == 5

Pairs(S) == {<<lo, hi>> : lo \in S, hi \in S} \ {<<lo, hi>> \in S \X S : lo > hi}

\* np.arange(ytm_range[0], ytm_range[1] + step, step) / 100
viz_rates(range) ==
    [j \in 1 .. ((range[2] - range[1]) \div YtmStep + 1) |->
        Decimal(RFromInt(range[1] + (j - 1) * YtmStep))]

\* np.arange(years_range[0], years_range[1] + 1)
viz_years(range) == [i \in 1 .. (range[2] - range[1] + 1) |-> range[1] + i - 1]

\* np.linspace(coupon_rate_range[0], coupon_rate_range[1], 5) / 100
viz_coupon_rates(range) ==
    [k \in 1 .. CouponPoints |->
        Decimal(RAdd(RFromInt(range[1]),
                     RMul(RFromInt(k - 1), Rat(range[2] - range[1], CouponPoints - 1))))]

\* np.mean(coupon_rates)
viz_mean(seq) == RDiv(RSum(seq), RFromInt(Len(seq)))

\* for r in rates: for y in years: for cr in coupon_rates: data.append(...)
RECURSIVE Flatten(_)
Flatten(seqs) == IF seqs = << >> THEN << >> ELSE Head(seqs) \o Flatten(Tail(seqs))

viz_rows(face, rates, yrs, coupons) ==
    Flatten([j \in 1 .. Len(rates) |->
        Flatten([i \in 1 .. Len(yrs) |->
            [k \in 1 .. Len(coupons) |->
                <<RMul(rates[j], RFromInt(100)), yrs[i], RMul(coupons[k], RFromInt(100)),
                  calculate_price(face, rates[j], yrs[i], coupons[k])>>]])])

\* Z[i, j] = calculate_price(face_value, r, y, np.mean(coupon_rates))
viz_surface(face, rates, yrs, coupons) ==
    [i \in 1 .. Len(yrs) |->
        [j \in 1 .. Len(rates) |->
            calculate_price(face, rates[j], yrs[i], viz_mean(coupons))]]

\* update_visualizations(face_value, ytm_range, years_range, coupon_rate_range)
update_visualizations(face, ytm, yrs, coupons) ==
    /\ viz_face_value' = face
    /\ ytm_range' = ytm
    /\ years_range' = yrs
    /\ coupon_rate_range' = coupons
    /\ viz_data' = viz_rows(face, viz_rates(ytm), viz_years(yrs), viz_coupon_rates(coupons))
    /\ viz_Z' = viz_surface(face, viz_rates(ytm), viz_years(yrs), viz_coupon_rates(coupons))

VizIdle ==
    /\ viz_face_value = Zero
    /\ ytm_range = <<0, 0>>
    /\ years_range = <<1, 1>>
    /\ coupon_rate_range = <<0, 0>>
    /\ viz_data = << >>
    /\ viz_Z = << >>

\* the page after a run of the script
VizInit ==
    \E ytm \in Pairs(YtmPercents), yrs \in Pairs(1 .. MaxYears), coupons \in Pairs(CouponPercents) :
        /\ viz_face_value = RFromInt(100)
        /\ ytm_range = ytm
        /\ years_range = yrs
        /\ coupon_rate_range = coupons
        /\ viz_data = viz_rows(RFromInt(100), viz_rates(ytm), viz_years(yrs),
                               viz_coupon_rates(coupons))
        /\ viz_Z = viz_surface(RFromInt(100), viz_rates(ytm), viz_years(yrs),
                               viz_coupon_rates(coupons))

\* the user moves a slider of the sidebar of the open page, the script reruns
SetYtmRange ==
    /\ viz_Z # << >>
    /\ \E ytm \in Pairs(YtmPercents) :
        update_visualizations(viz_face_value, ytm, years_range, coupon_rate_range)
    /\ UNCHANGED <<tvmVars, bondVars, ddmVars, v1Vars, fcfVars, stkVars, appVars, boardVars, simVars, creditVars>>

SetYearsRange ==
    /\ viz_Z # << >>
    /\ \E yrs \in Pairs(1 .. MaxYears) :
        update_visualizations(viz_face_value, ytm_range, yrs, coupon_rate_range)
    /\ UNCHANGED <<tvmVars, bondVars, ddmVars, v1Vars, fcfVars, stkVars, appVars, boardVars, simVars, creditVars>>

SetCouponRateRange ==
    /\ viz_Z # << >>
    /\ \E coupons \in Pairs(CouponPercents) :
        update_visualizations(viz_face_value, ytm_range, years_range, coupons)
    /\ UNCHANGED <<tvmVars, bondVars, ddmVars, v1Vars, fcfVars, stkVars, appVars, boardVars, simVars, creditVars>>

VizNext ==
    \/ SetYtmRange
    \/ SetYearsRange
    \/ SetCouponRateRange

(***************************************************************************)
(* The time value of money page: main of TVM/TVM-sen1.py, from the inputs  *)
(* to the sensitivity table.                                               *)
(***************************************************************************)
\* range(1, 21, 5) and range(1, 51, 10) of the sensitivity loops: the rates in
\* percent and the years
sweep_rates == <<25, 100>>

sweep_years == <<1, 2>>

AppPeriods == 1 .. MaxPeriods

\* the number inputs start at 0.0, "0 if not applicable"
AppAmounts == {Zero} \cup Amounts

ZeroDivisionError == "ZeroDivisionError"

\* tvm.future_value(present_value) if present_value > 0 else None
FutureValueOrNone(obj, pv) ==
    IF RLt(Zero, pv) THEN future_value(obj, pv).val ELSE None

PresentValueOrNone(obj, fv) ==
    IF RLt(Zero, fv) THEN present_value(obj, fv).val ELSE None

\* the object the loops bind to tvm for the rate at i and the years at j
sweep_tvm(i, j) == TVM_init(Decimal(RFromInt(sweep_rates[i])), sweep_years[j])

\* the rows the two loops append
sweep_rows(pv, fv) ==
    Flatten([i \in 1 .. Len(sweep_rates) |->
        [j \in 1 .. Len(sweep_years) |->
            [rate |-> sweep_rates[i], years |-> sweep_years[j],
             fv |-> FutureValueOrNone(sweep_tvm(i, j), pv),
             pv |-> PresentValueOrNone(sweep_tvm(i, j), fv)]]])

\* the last object the loops bind to tvm
sweep_last_tvm == sweep_tvm(Len(sweep_rates), Len(sweep_years))

AppIdle ==
    /\ ss_rate = Zero
    /\ ss_periods = 1
    /\ in_present_value = Zero
    /\ in_future_value = Zero
    /\ in_payment_annuity = Zero
    /\ app_tvm = TVM_init(Zero, 1)
    /\ fv_result = None
    /\ pv_result = None
    /\ sensitivity_data = << >>
    /\ app_pc = "none"

\* the page is opened: the widgets hold a rate, a number of years and amounts
AppInit ==
    /\ ss_rate \in Rates
    /\ ss_periods \in AppPeriods
    /\ in_present_value \in AppAmounts
    /\ in_future_value \in AppAmounts
    /\ in_payment_annuity \in {Zero, One}
    /\ app_tvm = TVM_init(Zero, 1)
    /\ fv_result = None
    /\ pv_result = None
    /\ sensitivity_data = << >>
    /\ app_pc = "start"

\* main from tvm = TVM(...) to the annuity results
Recalculate ==
    /\ app_pc = "start"
    /\ app_tvm' = TVM_init(ss_rate, ss_periods)
    /\ fv_result' = FutureValueOrNone(TVM_init(ss_rate, ss_periods), in_present_value)
    /\ pv_result' = PresentValueOrNone(TVM_init(ss_rate, ss_periods), in_future_value)
    /\ app_pc' =
        IF RLt(Zero, in_payment_annuity)
           /\ future_value_annuity(TVM_init(ss_rate, ss_periods), in_payment_annuity).kind # "value"
        THEN ZeroDivisionError
        ELSE "calculated"
    /\ UNCHANGED <<ss_rate, ss_periods, in_present_value, in_future_value,
                   in_payment_annuity, sensitivity_data,
                   tvmVars, bondVars, ddmVars, v1Vars, fcfVars, stkVars, vizVars, boardVars, simVars, creditVars>>

\* mutation: the loops write the rate and the years they try into the session
SensitivityTable_in_session ==
    /\ app_pc = "calculated"
    /\ sensitivity_data' = sweep_rows(in_present_value, in_future_value)
    /\ app_tvm' = sweep_last_tvm
    /\ ss_rate' = sweep_last_tvm.rate
    /\ ss_periods' = sweep_last_tvm.periods
    /\ app_pc' = "swept"
    /\ UNCHANGED <<in_present_value, in_future_value,
                   in_payment_annuity, fv_result, pv_result,
                   tvmVars, bondVars, ddmVars, v1Vars, fcfVars, stkVars, vizVars, boardVars, simVars, creditVars>>

\* main from the sensitivity loops to the table
SensitivityTable ==
    /\ app_pc = "calculated"
    /\ sensitivity_data' = sweep_rows(in_present_value, in_future_value)
    /\ app_tvm' = sweep_last_tvm
    /\ app_pc' = "swept"
    /\ UNCHANGED <<ss_rate, ss_periods, in_present_value, in_future_value,
                   in_payment_annuity, fv_result, pv_result,
                   tvmVars, bondVars, ddmVars, v1Vars, fcfVars, stkVars, vizVars, boardVars, simVars, creditVars>>

\* the user edits a widget: the script starts again
EditInputs ==
    /\ app_pc \in {"swept", ZeroDivisionError}
    /\ ss_rate' \in Rates
    /\ ss_periods' \in AppPeriods
    /\ in_present_value' \in AppAmounts
    /\ in_future_value' \in AppAmounts
    /\ in_payment_annuity' \in {Zero, One}
    /\ app_tvm' = TVM_init(Zero, 1)
    /\ fv_result' = None
    /\ pv_result' = None
    /\ sensitivity_data' = << >>
    /\ app_pc' = "start"
    /\ UNCHANGED <<tvmVars, bondVars, ddmVars, v1Vars, fcfVars, stkVars, vizVars, boardVars, simVars, creditVars>>

AppNext ==
    \/ Recalculate
    \/ SensitivityTable
    \/ EditInputs

(***************************************************************************)
(* The leaderboard of FCF.py: one CSV file, and a copy of it in the        *)
(* session state of every browser session.                                 *)
(***************************************************************************)
Sessions == 1 .. MaxSessions

\* what is typed into "Enter your name:"
TypedNames == {"Ann", "ann", "bob"}

\* name.strip().lower()
Lower(name) == IF name = "Ann" THEN "ann" ELSE name

Predictions == {1, 2}

\* current_price of the ticker
current_price == 1

\* the row of a prediction
new_entry(name, prediction) ==
    [Name |-> name, Prediction |-> prediction, MarketPrice |-> current_price,
     Error |-> IF prediction >= current_price THEN prediction - current_price
               ELSE current_price - prediction,
     Status |-> IF prediction > current_price THEN "Undervalued" ELSE "Overvalued"]

\* the column Name of a frame
NamesOf(frame) == {frame[i].Name : i \in DOMAIN frame}

NotLoaded == "not loaded"

BoardIdle ==
    /\ leaderboard_file = << >>
    /\ ss_leaderboard = << >>
    /\ accepted = {}
    /\ board_event = [session |-> 0, kind |-> "none"]

\* no file yet, no session open
BoardInit ==
    /\ leaderboard_file = << >>
    /\ ss_leaderboard = [s \in Sessions |-> NotLoaded]
    /\ accepted = {}
    /\ board_event = [session |-> 0, kind |-> "none"]

\* the first run of the script in a session: load_leaderboard
OpenPage ==
    \E s \in Sessions :
        /\ ss_leaderboard[s] = NotLoaded
        /\ ss_leaderboard' = [ss_leaderboard EXCEPT ![s] = leaderboard_file]
        /\ board_event' = [session |-> s, kind |-> "loaded"]
        /\ UNCHANGED <<leaderboard_file, accepted, tvmVars, bondVars, ddmVars, v1Vars, fcfVars, stkVars, vizVars, appVars, simVars, creditVars>>

\* Refresh Leaderboard: an empty frame in the session, saved over the file
RefreshLeaderboard ==
    \E s \in Sessions :
        /\ ss_leaderboard[s] # NotLoaded
        /\ ss_leaderboard' = [ss_leaderboard EXCEPT ![s] = << >>]
        /\ leaderboard_file' = << >>
        /\ accepted' = {}
        /\ board_event' = [session |-> s, kind |-> "refreshed"]
        /\ UNCHANGED <<tvmVars, bondVars, ddmVars, v1Vars, fcfVars, stkVars, vizVars, appVars, simVars, creditVars>>

\* Submit Prediction: refused for a name in the session's frame, else
\* appended to the session's frame, which is saved over the file
SubmitPrediction ==
    \E s \in Sessions, typed \in TypedNames, prediction \in Predictions :
        LET name == Lower(typed)
        IN  /\ ss_leaderboard[s] # NotLoaded
            /\ IF name \in NamesOf(ss_leaderboard[s])
               THEN /\ board_event' = [session |-> s, kind |-> "warning"]
                    /\ UNCHANGED <<leaderboard_file, ss_leaderboard, accepted>>
               ELSE /\ ss_leaderboard' =
                          [ss_leaderboard EXCEPT
                              ![s] = Append(@, new_entry(name, prediction))]
                    /\ leaderboard_file' = ss_leaderboard'[s]
                    /\ accepted' = accepted \cup {new_entry(name, prediction)}
                    /\ board_event' = [session |-> s, kind |-> "submitted"]
            /\ UNCHANGED <<tvmVars, bondVars, ddmVars, v1Vars, fcfVars, stkVars, vizVars, appVars, simVars, creditVars>>

BoardNext ==
    \/ OpenPage
    \/ RefreshLeaderboard
    \/ SubmitPrediction

(***************************************************************************)
(* The leaderboard of tvm_simulation.py and tvm-eco.py: the functions on   *)
(* leaderboard.csv, and main with its Submit and Clear Leaderboard buttons.*)
(***************************************************************************)
\* what is typed into "Enter your name:"; the field starts empty
StudentNames == {"", "Ann", "ann"}

CalculationTypes ==
    {"Future Value", "Present Value", "Future Value of Annuity",
     "Present Value of Annuity"}

Pairs2 == {"", "ann"} \X CalculationTypes

NoRow == [name |-> "none"]

AttributeError == "AttributeError: Can only use .str accessor with string values!"

\* pd.read_csv reads an empty field as NaN: a column name with nothing but
\* empty fields is a column of floats, which has no .str
NameColumnIsFloat(file) == file # << >> /\ \A i \in DOMAIN file : file[i].name = ""

\* df['name'].str.lower() == name, False for a NaN
SameStudent(row, name) == row.name # "" /\ Lower(row.name) = name

\* save_to_leaderboard on the state [file, latest, raised, saved] of a rerun
save_to_leaderboard(st, name_, calculation_type, input_value, result, years_, rate) ==
    LET name == Lower(name_)
        Keep(row) == ~(SameStudent(row, name) /\ row.calculation_type = calculation_type)
        new_entry_ == [name |-> name, calculation_type |-> calculation_type,
                       input_value |-> input_value, result |-> result,
                       years |-> years_, rate |-> rate]
    IN  IF st.raised # "no" THEN st
        ELSE IF NameColumnIsFloat(st.file) THEN [st EXCEPT !.raised = AttributeError]
        ELSE [file |-> Append(SelectSeq(st.file, Keep), new_entry_),
              latest |-> [st.latest EXCEPT ![<<name, calculation_type>>] = new_entry_],
              raised |-> "no",
              saved |-> st.saved + 1]

\* clear_leaderboard: the file with its header only
clear_leaderboard == [file |-> << >>, latest |-> [pair \in Pairs2 |-> NoRow]]

\* the calls of a Submit press, one after the other, until one raises
SubmitCalls(st0, name, inputs, rate, periods) ==
    LET tvm_ == TVM_init(rate, periods)
        st1 == IF RLt(Zero, inputs.present_value)
               THEN save_to_leaderboard(st0, name, "Future Value", inputs.present_value,
                        future_value(tvm_, inputs.present_value).val, periods, rate)
               ELSE st0
        st2 == IF RLt(Zero, inputs.future_value)
               THEN save_to_leaderboard(st1, name, "Present Value", inputs.future_value,
                        present_value(tvm_, inputs.future_value).val, periods, rate)
               ELSE st1
        fv_annuity == future_value_annuity(tvm_, inputs.payment_annuity)
        pv_annuity == present_value_annuity(tvm_, inputs.payment_annuity)
        st3 == IF ~RLt(Zero, inputs.payment_annuity) \/ st2.raised # "no" THEN st2
               ELSE IF fv_annuity.kind # "value" THEN [st2 EXCEPT !.raised = fv_annuity.kind]
               ELSE save_to_leaderboard(st2, name, "Future Value of Annuity",
                        inputs.payment_annuity, fv_annuity.val, periods, rate)
        st4 == IF ~RLt(Zero, inputs.payment_annuity) \/ st3.raised # "no" THEN st3
               ELSE IF pv_annuity.kind # "value" THEN [st3 EXCEPT !.raised = pv_annuity.kind]
               ELSE save_to_leaderboard(st3, name, "Present Value of Annuity",
                        inputs.payment_annuity, pv_annuity.val, periods, rate)
    IN  st4

SimInputs ==
    {[present_value |-> a, future_value |-> b, payment_annuity |-> c] :
        a \in {Zero, One}, b \in {Zero, One}, c \in {Zero, One}}

NoEvent == [kind |-> "none", raised |-> "no", saved |-> 0]

SimIdle ==
    /\ lb_file = << >>
    /\ lb_latest = << >>
    /\ student_name = ""
    /\ has_submitted = FALSE
    /\ st_rate = Zero
    /\ st_periods = 0
    /\ st_inputs = [present_value |-> Zero, future_value |-> Zero, payment_annuity |-> Zero]
    /\ st_event = NoEvent
    /\ st_saved = 0
    /\ st_writes = 0

\* the functions called on an empty leaderboard, outside any session
LeaderboardInit ==
    /\ lb_file = << >>
    /\ lb_latest = [pair \in Pairs2 |-> NoRow]
    /\ student_name = ""
    /\ has_submitted = FALSE
    /\ st_rate = Zero
    /\ st_periods = 1
    /\ st_inputs = [present_value |-> Zero, future_value |-> Zero, payment_annuity |-> Zero]
    /\ st_event = NoEvent
    /\ st_saved = 0
    /\ st_writes = 0

CallSaveToLeaderboard ==
    \E name \in StudentNames, type \in {"Future Value", "Present Value"},
       value \in Amounts :
        LET st == save_to_leaderboard(
                      [file |-> lb_file, latest |-> lb_latest, raised |-> "no", saved |-> 0],
                      name, type, value, value, st_periods, st_rate)
        IN  /\ Len(lb_file) <= MaxRows
            /\ lb_file' = st.file
            /\ lb_latest' = st.latest
            /\ st_event' = [kind |-> "save_to_leaderboard", raised |-> st.raised,
                            saved |-> st.saved]
            /\ UNCHANGED <<student_name, has_submitted, st_rate, st_periods, st_inputs,
                           st_saved, st_writes, tvmVars, bondVars, ddmVars, v1Vars, fcfVars, stkVars, vizVars, appVars, boardVars, creditVars>>

CallClearLeaderboard ==
    /\ lb_file' = clear_leaderboard.file
    /\ lb_latest' = clear_leaderboard.latest
    /\ st_event' = [kind |-> "clear_leaderboard", raised |-> "no", saved |-> 0]
    /\ UNCHANGED <<student_name, has_submitted, st_rate, st_periods, st_inputs,
                   st_saved, st_writes, tvmVars, bondVars, ddmVars, v1Vars, fcfVars, stkVars, vizVars, appVars, boardVars, creditVars>>

LeaderboardNext ==
    \/ CallSaveToLeaderboard
    \/ CallClearLeaderboard

\* a session of tvm_simulation.py after its first run: the session state
\* initialised, the rate and the periods as entered
SimInit ==
    /\ lb_file = << >>
    /\ lb_latest = [pair \in Pairs2 |-> NoRow]
    /\ student_name = ""
    /\ has_submitted = FALSE
    /\ st_rate \in {Zero, One}
    /\ st_periods \in {1, 2}
    /\ st_inputs \in SimInputs
    /\ st_event = NoEvent
    /\ st_saved = 0
    /\ st_writes = 0

\* the name or an amount is edited: a rerun with no button pressed
EditEntry ==
    /\ student_name' \in StudentNames
    /\ st_inputs' \in SimInputs
    /\ st_event' = [kind |-> "edit", raised |-> "no", saved |-> 0]
    /\ UNCHANGED <<lb_file, lb_latest, has_submitted, st_rate, st_periods, st_saved,
                   st_writes, tvmVars, bondVars, ddmVars, v1Vars, fcfVars, stkVars, vizVars, appVars, boardVars, creditVars>>

\* Clear Leaderboard pressed
PressClearLeaderboard ==
    /\ lb_file' = clear_leaderboard.file
    /\ lb_latest' = clear_leaderboard.latest
    /\ st_event' = [kind |-> "Clear Leaderboard", raised |-> "no", saved |-> 0]
    /\ UNCHANGED <<student_name, has_submitted, st_rate, st_periods, st_inputs,
                   st_saved, st_writes, tvmVars, bondVars, ddmVars, v1Vars, fcfVars, stkVars, vizVars, appVars, boardVars, creditVars>>

\* Submit pressed: the button is there only while has_submitted is False
PressSubmit ==
    /\ ~has_submitted
    /\ Len(lb_file) <= MaxRows
    /\ LET st == SubmitCalls([file |-> lb_file, latest |-> lb_latest, raised |-> "no",
                              saved |-> 0],
                             student_name, st_inputs, st_rate, st_periods)
       IN  /\ lb_file' = st.file
           /\ lb_latest' = st.latest
           /\ has_submitted' = (st.raised = "no")
           /\ st_event' = [kind |-> "Submit", raised |-> st.raised, saved |-> st.saved]
           /\ st_saved' = IF st_saved + st.saved > MaxSaved THEN MaxSaved
                          ELSE st_saved + st.saved
           /\ st_writes' = IF st.saved > 0 /\ st_writes < 2 THEN st_writes + 1
                           ELSE st_writes
    /\ UNCHANGED <<student_name, st_rate, st_periods, st_inputs, tvmVars, bondVars, ddmVars, v1Vars, fcfVars, stkVars, vizVars, appVars, boardVars, creditVars>>

SimNext ==
    \/ EditEntry
    \/ PressClearLeaderboard
    \/ PressSubmit

(***************************************************************************)
(* The credit score pages (Risk-Return/crfinal.py, creditreport-2.py,      *)
(* creditdefault.py): thirteen sliders and calculate_credit_score.         *)
(***************************************************************************)
\* the keys of factors, in the order of the dict
FactorNames ==
    << "Payment History", "Credit Mix", "Length of Credit History",
       "Credit Utilization (keep below 30%)", "Total Accounts in Good Standing",
       "Loan Payment History", "Recent Positive Credit Behavior",
       "Amounts Owed (High debt, high credit utilization)",
       "New Credit Accounts and Inquiries", "High Debt-to-Income Ratio (DTI)",
       "Bankruptcies, Liens, Foreclosures, or Collections",
       "Closing Old Credit Accounts", "Outstanding Loans or Defaulted Loans" >>

Factors == 1 .. Len(FactorNames)

\* the credit-boosting factors come first in the dict
Boosting == 1 .. 7

\* slider positions: st.sidebar.slider(label, 0, 10, default)
SliderValues == 0 .. 10

impact(f) == IF f \in Boosting THEN 1 ELSE 0 - 1

\* the weights, in hundredths, in the order of FactorNames
WeightsCrfinal == <<15, 10, 10, 10, 10, 5, 5, 10, 5, 5, 5, 5, 5>>

WeightsCreditReport2 == <<20, 15, 10, 10, 10, 5, 5, 10, 5, 5, 5, 5, 5>>

factors(weights) ==
    [f \in Factors |-> [impact |-> impact(f), weight |-> Rat(weights[f], 100)]]

factors_crfinal == factors(WeightsCrfinal)

factors_creditreport2 == factors(WeightsCreditReport2)

factors_creditdefault == factors(WeightsCrfinal)

MinimumScore == RFromInt(300)

MaximumScore == RFromInt(850)

\* score after the first k items of values.items()
RECURSIVE score_after(_, _, _)
score_after(factors_, values, k) ==
    IF k = 0 THEN MinimumScore
    ELSE RAdd(score_after(factors_, values, k - 1),
              RMul(RMul(RMul(RFromInt(factors_[k].impact), RFromInt(values[k])),
                        factors_[k].weight),
                   RFromInt(100)))

RMin(a, b) == IF RLt(b, a) THEN b ELSE a

RMax(a, b) == IF RLt(a, b) THEN b ELSE a

\* the score returned as accumulated, without max(min(...))
calculate_credit_score_unclamped(factors_, values) ==
    score_after(factors_, values, Len(FactorNames))

calculate_credit_score(factors_, values) ==
    RMax(RMin(score_after(factors_, values, Len(FactorNames)), MaximumScore),
         MinimumScore)

CreditApps == {"crfinal", "creditreport-2", "creditdefault"}

factors_of(app) ==
    IF app = "crfinal" THEN factors_crfinal
    ELSE IF app = "creditreport-2" THEN factors_creditreport2
    ELSE factors_creditdefault

\* the defaults of the sliders
SliderDefaults(app) ==
    IF app = "creditdefault" THEN [f \in Factors |-> 7]
    ELSE <<8, 7, 7, 3, 8, 7, 6, 2, 3, 4, 1, 2, 1>>

\* slider positions a session is taken up from: the defaults, and the
\* positions with every boosting and every damaging slider at an end
SliderPresets(app) ==
    {SliderDefaults(app)} \cup
    {[f \in Factors |-> IF f \in Boosting THEN b ELSE d] : b \in {0, 10}, d \in {0, 10}}

CreditIdle ==
    /\ credit_app = "none"
    /\ factor_values = << >>
    /\ fico_score = Zero
    /\ moved = 0

CreditInit ==
    /\ credit_app \in CreditApps
    /\ factor_values \in SliderPresets(credit_app)
    /\ fico_score = calculate_credit_score(factors_of(credit_app), factor_values)
    /\ moved = 0

\* a slider is moved and the script reruns
MoveSlider(factors_) ==
    /\ moved < MaxMoved
    /\ \E f \in Factors, value \in SliderValues :
         /\ value # factor_values[f]
         /\ factor_values' = [factor_values EXCEPT ![f] = value]
    /\ fico_score' = calculate_credit_score(factors_, factor_values')
    /\ moved' = moved + 1
    /\ UNCHANGED <<credit_app, tvmVars, bondVars, ddmVars, v1Vars, fcfVars, stkVars, vizVars, appVars, boardVars, simVars>>

MoveSliderCrfinal ==
    /\ credit_app = "crfinal"
    /\ MoveSlider(factors_crfinal)

MoveSliderCreditReport2 ==
    /\ credit_app = "creditreport-2"
    /\ MoveSlider(factors_creditreport2)

MoveSliderCreditDefault ==
    /\ credit_app = "creditdefault"
    /\ MoveSlider(factors_creditdefault)

CreditNext ==
    \/ MoveSliderCrfinal
    \/ MoveSliderCreditReport2
    \/ MoveSliderCreditDefault

(***************************************************************************)
(* Specifications: one per program, the other programs' state at rest.     *)
(***************************************************************************)
InitTVM == TVMInit /\ BondIdle /\ DDMIdle /\ V1Idle /\ FCFIdle /\ StocksIdle /\ VizIdle /\ AppIdle /\ BoardIdle /\ SimIdle /\ CreditIdle

SpecTVM == InitTVM /\ [][TVMNext]_vars

InitBond == BondInit /\ TVMIdle /\ DDMIdle /\ V1Idle /\ FCFIdle /\ StocksIdle /\ VizIdle /\ AppIdle /\ BoardIdle /\ SimIdle /\ CreditIdle

SpecBond == InitBond /\ [][BondNext]_vars

InitBondApp == BondAppInit /\ TVMIdle /\ DDMIdle /\ V1Idle /\ FCFIdle /\ StocksIdle /\ VizIdle /\ AppIdle /\ BoardIdle /\ SimIdle /\ CreditIdle

SpecBondApp == InitBondApp /\ [][BondAppNext]_vars

InitBondViews == BondViewsInit /\ TVMIdle /\ DDMIdle /\ V1Idle /\ FCFIdle /\ StocksIdle /\ VizIdle /\ AppIdle /\ BoardIdle /\ SimIdle /\ CreditIdle

SpecBondViews == InitBondViews /\ [][BondViewsNext]_vars

\* a session holds a DDMValuation object or runs v1.py
InitDDM ==
    /\ (DDMInit /\ V1Idle) \/ (DDMIdle /\ V1Init)
    /\ TVMIdle /\ BondIdle /\ FCFIdle /\ StocksIdle /\ VizIdle /\ AppIdle /\ BoardIdle /\ SimIdle /\ CreditIdle

SpecDDM == InitDDM /\ [][DDMNext]_vars

InitFCF == FCFInit /\ TVMIdle /\ BondIdle /\ DDMIdle /\ V1Idle /\ StocksIdle /\ VizIdle /\ AppIdle /\ BoardIdle /\ SimIdle /\ CreditIdle

SpecFCF == InitFCF /\ [][FCFNext]_vars

InitStocks == StocksInit /\ TVMIdle /\ BondIdle /\ DDMIdle /\ V1Idle /\ FCFIdle /\ VizIdle /\ AppIdle /\ BoardIdle /\ SimIdle /\ CreditIdle

SpecStocks == InitStocks /\ [][StocksNext]_vars

InitBoard == BoardInit /\ TVMIdle /\ BondIdle /\ DDMIdle /\ V1Idle /\ FCFIdle /\ StocksIdle /\ VizIdle /\ AppIdle /\ SimIdle /\ CreditIdle

SpecBoard == InitBoard /\ [][BoardNext]_vars

InitLeaderboard == LeaderboardInit /\ TVMIdle /\ BondIdle /\ DDMIdle /\ V1Idle /\ FCFIdle /\ StocksIdle /\ VizIdle /\ AppIdle /\ BoardIdle /\ CreditIdle

SpecLeaderboard == InitLeaderboard /\ [][LeaderboardNext]_vars

InitSim == SimInit /\ TVMIdle /\ BondIdle /\ DDMIdle /\ V1Idle /\ FCFIdle /\ StocksIdle /\ VizIdle /\ AppIdle /\ BoardIdle /\ CreditIdle

SpecSim == InitSim /\ [][SimNext]_vars

\* the pages that show a sensitivity table: FCF.py, Streamlit-Bond.py or TVM-sen1.py
InitCredit == CreditInit /\ TVMIdle /\ BondIdle /\ DDMIdle /\ V1Idle /\ FCFIdle /\ StocksIdle /\ VizIdle /\ AppIdle /\ BoardIdle /\ SimIdle

SpecCredit == InitCredit /\ [][CreditNext]_vars

InitSweep ==
    /\ \/ FCFInit /\ VizIdle /\ AppIdle
       \/ FCFIdle /\ VizInit /\ AppIdle
       \/ FCFIdle /\ VizIdle /\ AppInit
    /\ TVMIdle /\ BondIdle /\ DDMIdle /\ V1Idle /\ StocksIdle /\ BoardIdle /\ SimIdle /\ CreditIdle

SweepNext == FCFNext \/ VizNext \/ AppNext

SpecSweep == InitSweep /\ [][SweepNext]_vars

(***************************************************************************)
(* Claims about TVM, checked under SpecTVM.                                *)
(***************************************************************************)
RECURSIVE IPow(_, _)
IPow(b, k) == IF k = 0 THEN 1 ELSE b * IPow(b, k - 1)

\* present_value was called on what future_value returned for the same object
RoundTripDone ==
    /\ tvm_call = "present_value"
    /\ tvm_prev.call = "future_value"
    /\ tvm_prev.ret.kind = "value"
    /\ tvm_arg = tvm_prev.ret.val

\* C1: for every pv, rate r >= 0 and period count n >= 0,
\* TVM(r, n).present_value(TVM(r, n).future_value(pv)) is pv again.
C1_RoundTrip == RoundTripDone => tvm_ret = Value(tvm_prev.arg)

C1_Witness ==
    /\ RoundTripDone
    /\ tvm.rate # Zero
    /\ tvm.periods >= 2
    /\ tvm_ret = Value(tvm_prev.arg)

\* C2: future_value(pv) is pv * (1+r)^n and present_value(fv) is fv / (1+r)^n,
\* written here over the integers with r = rn / rd; with n = 0 both return
\* their argument.
C2_Compounding ==
    LET up   == IPow(tvm.rate.n + tvm.rate.d, tvm.periods)
        down == IPow(tvm.rate.d, tvm.periods)
    IN  /\ tvm_call = "future_value" =>
              tvm_ret = Value(Rat(tvm_arg.n * up, tvm_arg.d * down))
        /\ tvm_call = "present_value" =>
              tvm_ret = Value(Rat(tvm_arg.n * down, tvm_arg.d * up))
        /\ (tvm_call \in {"future_value", "present_value"} /\ tvm.periods = 0) =>
              tvm_ret = Value(tvm_arg)

C2_Witness ==
    /\ tvm_call = "future_value"
    /\ tvm.rate = Rat(1, 2)
    /\ tvm.periods = 3
    /\ tvm_arg = RFromInt(2)
    /\ tvm_ret = Value(Rat(27, 4))

\* C3: with rate 0 and n >= 1 both annuity methods return payment * n
\* instead of raising a division by zero.
C3_AnnuityZeroRate ==
    (/\ tvm_call \in {"future_value_annuity", "present_value_annuity"}
     /\ tvm.rate = Zero
     /\ tvm.periods >= 1)
        => tvm_ret = Value(RMul(tvm_arg, RFromInt(tvm.periods)))

(***************************************************************************)
(* Claims about the bond pricers, checked under SpecBond.                  *)
(***************************************************************************)
RECURSIVE DiscountedCoupons(_, _, _)
DiscountedCoupons(payment, factor, k) ==
    IF k <= 0 THEN Zero
    ELSE RAdd(DiscountedCoupons(payment, factor, k - 1), RDiv(payment, RPow(factor, k)))

Payments == total_payments(settlement_date, maturity_date, frequency)

\* the sum of the claim: coupon_payment / (1 + yield/frequency)^f over
\* f = 1 .. total_payments plus face_value / (1 + yield/frequency)^total_payments,
\* with coupon_payment = face_value * coupon_rate / frequency, rates as decimals
ClaimedSum ==
    LET coupon_payment ==
            RDiv(RMul(face_value, Decimal(coupon_rate)), RFromInt(frequency))
        factor == RAdd(One, RDiv(Decimal(yield_rate), RFromInt(frequency)))
    IN  RAdd(DiscountedCoupons(coupon_payment, factor, Payments),
             RDiv(face_value, RPow(factor, Payments)))

\* C4 as stated: the date-driven pricer returns the sum itself.
C4_ReturnsSum == bond_call = "calculate_bond_price" => bond_ret = ClaimedSum

\* C4 as amended: the date-driven pricer returns the sum rounded to two
\* decimals, for every frequency in {1, 2, 4}.
C4_ReturnsRoundedSum == bond_call = "calculate_bond_price" => bond_ret = Round2(ClaimedSum)

C4_Witness ==
    /\ bond_call = "calculate_bond_price"
    /\ frequency = 4
    /\ Payments >= 3
    /\ coupon_rate # Zero /\ yield_rate # Zero /\ face_value # Zero
    /\ bond_ret = Round2(ClaimedSum)
    /\ bond_ret # ClaimedSum

WholeYears ==
    /\ maturity_date > settlement_date
    /\ (maturity_date - settlement_date) % DaysPerYear = 0

TwoYields ==
    LET now == [set |-> TRUE, yield |-> yield_rate, price |-> bond_price, ret |-> bond_ret]
    IN  IF RLt(bond_prev.yield, yield_rate) THEN <<bond_prev, now>> ELSE <<now, bond_prev>>

\* the precondition of C7: face_value > 0 and, for the pricer that takes
\* dates, a maturity after the settlement (a year or more for the other)
PricedAtTwoYields ==
    /\ bond_call # "none"
    /\ bond_prev.set
    /\ face_value.n > 0
    /\ bond_call = "calculate_bond_price" => maturity_date > settlement_date
    /\ bond_call = "calculate_price" => years >= 1

PaymentsPriced == IF bond_call = "calculate_bond_price" THEN Payments ELSE years

C5_DatesValidated ==
    press.app # "none" =>
        /\ maturity_date <= settlement_date => (press.shown = "error" /\ ~press.saved)
        /\ press.shown = "price" => maturity_date > settlement_date

(***************************************************************************)
(* Claims about the dividend discount valuers, checked under SpecDDM.      *)
(***************************************************************************)
\* a valuation was asked of the DDMValuation object with its data fetched
ValuationAsked ==
    /\ ddm_call \in {"calculate_value", "run_valuation"}
    /\ ddm.dividend # None
    /\ ddm.growth_rate # None

\* D0 * (1 + g) / (R - g)
GordonGrowth(D0, g, R) == RDiv(RMul(D0, RAdd(One, g)), RSub(R, g))

\* v1.py returned its dictionary with numbers for g and R
V1Valued ==
    /\ v1_result.kind = "dict"
    /\ v1_result.growth # NaN
    /\ v1_result.required_return # NaN

\* C8: whenever R > g, the dividend discount valuer returns
\* intrinsic_value = D0 * (1 + g) / (R - g) for the latest paid dividend D0,
\* growth rate g and discount rate R.
C8_GordonGrowth ==
    /\ (ValuationAsked /\ RLt(ddm.growth_rate, ddm.discount_rate))
        => ddm_ret = Value(GordonGrowth(ddm.dividend, ddm.growth_rate, ddm.discount_rate))
    /\ (V1Valued /\ RLt(v1_result.growth, v1_result.required_return))
        => v1_result.price = GordonGrowth(v1_annual[Len(v1_annual)], v1_result.growth,
                                          v1_result.required_return)

\* C9: whenever R <= g (in particular R = g), the dividend discount valuer
\* signals a distinct error and produces no numeric intrinsic value.
C9_DegenerateRateSignalled ==
    /\ (ValuationAsked /\ RLe(ddm.discount_rate, ddm.growth_rate))
        => ddm_ret = Raise(DiscountNotAboveGrowth)
    /\ (V1Valued /\ RLe(v1_result.required_return, v1_result.growth))
        => v1_result.kind = "raised"

(***************************************************************************)
(* Claims about the free cash flow valuer, checked under SpecFCF.          *)
(***************************************************************************)
\* the sum over t = 1 .. k of FCF_t / (1 + r)^t
RECURSIVE DiscountedForecast(_)
DiscountedForecast(k) ==
    IF k = 0 THEN Zero
    ELSE RAdd(DiscountedForecast(k - 1),
              RDiv(fcf_forecast[k], RPow(RAdd(One, discount_rate), k)))

\* C10: for FCF0, growth g, discount rate r > g and horizon N >= 1 the forecast
\* has exactly N entries FCF_t = FCF0 * (1 + g)^t for t = 1 .. N, the terminal
\* value is FCF_N / (r - g), and the intrinsic value is the sum over t = 1 .. N
\* of FCF_t / (1 + r)^t plus TV / (1 + r)^N.
C10_ForecastAndValue ==
    RLt(growth_rate, discount_rate) =>
        /\ Len(fcf_forecast) = forecast_years
        /\ \A t \in 1 .. forecast_years :
            fcf_forecast[t] = RMul(fcf, RPow(RAdd(One, growth_rate), t))
        /\ terminal_value = RDiv(fcf_forecast[forecast_years],
                                 RSub(discount_rate, growth_rate))
        /\ intrinsic_value =
            RAdd(DiscountedForecast(forecast_years),
                 RDiv(terminal_value, RPow(RAdd(One, discount_rate), forecast_years)))

\* C10 witness: a growing cash flow forecast over several years at r > g
C10_Witness ==
    /\ RLt(growth_rate, discount_rate)
    /\ RLt(Zero, growth_rate)
    /\ fcf = RFromInt(2)
    /\ forecast_years >= 2
    /\ Len(fcf_forecast) = forecast_years
    /\ IsNum(intrinsic_value)
    /\ RLt(Zero, terminal_value)

\* C11: when the discount rate r equals the growth rate g, the cash flow
\* valuer yields a DegenerateRate error outcome and never a number, an
\* infinity or a NaN as the intrinsic value.
C11_DegenerateRateRejected ==
    (discount_rate = growth_rate) =>
        /\ ~IsNum(intrinsic_value)
        /\ intrinsic_value \notin {Inf, NegInf, NaN}

(***************************************************************************)
(* Claims about the company valuation script, checked under SpecStocks.    *)
(***************************************************************************)
\* multi_stage_growth_model was called with one growth rate and no second stage
SingleStageCall ==
    /\ msg_call.ret # None
    /\ msg_call.g1 = msg_call.g2
    /\ msg_call.years_terminal = 0
    /\ msg_call.years_initial >= 1
    /\ RLt(msg_call.g1, msg_call.wacc)

\* C12: with the second-stage horizon 0 and the same growth rate g in both
\* stages, multi_stage_growth_model(FCF0, g, g, r, N, 0) returns exactly the
\* single-stage intrinsic value for FCF0, g, r, N: the sum of the discounted
\* FCF_t for t = 1 .. N plus FCF_N / (r - g) discounted N periods.
C12_ReducesToSingleStage ==
    SingleStageCall =>
        msg_call.ret = intrinsic(msg_call.fcf, msg_call.g1, msg_call.wacc,
                                 msg_call.years_initial)

(***************************************************************************)
(* Claims about the sensitivity tables, checked under SpecSweep.           *)
(***************************************************************************)
\* the table of FCF.py is built
TableBuilt == fcf_pc = "done"

\* the surface of Streamlit-Bond.py is built
SurfaceBuilt == viz_Z # << >>

\* the rate at column j and the year at row i of the surface, and its coupon rate
SurfaceRate(j) == Rat(ytm_range[1] + (j - 1) * YtmStep, 100)

SurfaceYear(i) == years_range[1] + i - 1

SurfaceCoupon == Rat(coupon_rate_range[1] + coupon_rate_range[2], 200)

\* C13: the sensitivity grid has exactly len(axis1) rows and len(axis2)
\* columns, and every cell (i, j) is the valuer evaluated with axis1[i] and
\* axis2[j] and every other parameter at its base value; the cell at the base
\* values is the point estimate.
C13_GridCells ==
    /\ TableBuilt =>
        /\ Len(sensitivity) = Len(growth_values)
        /\ \A i \in 1 .. Len(growth_values) :
            /\ Len(sensitivity[i]) = Len(discount_values)
            /\ \A j \in 1 .. Len(discount_values) :
                /\ sensitivity[i][j] =
                       intrinsic(fcf, growth_values[i], discount_values[j], forecast_years)
                /\ (growth_values[i] = growth_rate /\ discount_values[j] = discount_rate
                    /\ intrinsic_value # NaN)
                       => sensitivity[i][j] = intrinsic_value
    /\ SurfaceBuilt =>
        /\ Len(viz_Z) = years_range[2] - years_range[1] + 1
        /\ \A i \in 1 .. Len(viz_Z) :
            /\ Len(viz_Z[i]) = (ytm_range[2] - ytm_range[1]) \div YtmStep + 1
            /\ \A j \in 1 .. Len(viz_Z[i]) :
                viz_Z[i][j] = calculate_price(viz_face_value, SurfaceRate(j),
                                              SurfaceYear(i), SurfaceCoupon)

\* C13 witness: a table whose cell at the base rates is the finite point
\* estimate, next to a cell that differs from it
C13_Witness ==
    /\ TableBuilt
    /\ forecast_years >= 2
    /\ fcf = RFromInt(2)
    /\ growth_rate = growth_values[2]
    /\ discount_rate = discount_values[2]
    /\ IsNum(intrinsic_value)
    /\ sensitivity[2][2] = intrinsic_value
    /\ sensitivity[1][2] # intrinsic_value
    /\ sensitivity[2][3] # intrinsic_value

\* C14: when one cell of a sensitivity sweep is degenerate (r = g, division by
\* zero), that cell is reported as a missing or invalid value, the sweep still
\* completes, and every other cell holds the value it would hold without the
\* degenerate cell.
C14_DegenerateCellIsolated ==
    TableBuilt =>
        \A i \in 1 .. Len(growth_values), j \in 1 .. Len(discount_values) :
            IF growth_values[i] = discount_values[j]
            THEN sensitivity[i][j] \in {NaN, None}
            ELSE sensitivity[i][j] =
                     intrinsic(fcf, growth_values[i], discount_values[j], forecast_years)

\* a step that builds the sensitivity table of FCF.py, of TVM-sen1.py
TableStep == fcf_pc = "valued" /\ fcf_pc' = "done"

SweepStep == app_pc = "calculated" /\ app_pc' = "swept"

\* C15: building a sensitivity grid leaves the base parameter set unchanged:
\* after the sweep the base rate, growth, horizon and cash flow or present value
\* inputs, and the valuer object or point estimate computed from them, are the
\* same as before the sweep.
C15_BaseUnchanged ==
    [][/\ TableStep => UNCHANGED <<fcf, growth_rate, discount_rate, forecast_years,
                                   fcf_forecast, terminal_value, intrinsic_value>>
       /\ SweepStep => UNCHANGED <<ss_rate, ss_periods, in_present_value, in_future_value,
                                   in_payment_annuity, app_tvm, fv_result, pv_result>>]_vars

\* C15 as the code has it: the sweep leaves the base rate, growth, horizon, the
\* cash flow and present value inputs and the point estimates unchanged; in
\* TVM-sen1.py name tvm is bound to the object of the last cell after it.
C15_BaseAndEstimatesUnchanged ==
    [][/\ TableStep => UNCHANGED <<fcf, growth_rate, discount_rate, forecast_years,
                                   fcf_forecast, terminal_value, intrinsic_value>>
       /\ SweepStep =>
            /\ UNCHANGED <<ss_rate, ss_periods, in_present_value, in_future_value,
                           in_payment_annuity, fv_result, pv_result>>
            /\ app_tvm = TVM_init(ss_rate, ss_periods)
            /\ app_tvm' = sweep_last_tvm]_vars

\* C15 witness: the table of TVM-sen1.py is built, the future value shown is
\* the one of the session's rate and years, and tvm is another object
C15_Witness ==
    /\ app_pc = "swept"
    /\ sensitivity_data # << >>
    /\ fv_result # None
    /\ fv_result = future_value(TVM_init(ss_rate, ss_periods), in_present_value).val
    /\ app_tvm # TVM_init(ss_rate, ss_periods)

(***************************************************************************)
(* More claims about the dividend discount valuers, checked under SpecDDM. *)
(***************************************************************************)
\* the growth rate was asked of the DDMValuation object
GrowthAsked == ddm_call \in {"calculate_dividends_eagr", "run_valuation"}

\* v1.py has run
V1Ran == v1_printed # "none"

\* C16: when fewer than 4 dividend observations are available, the growth rate
\* derivation fails with an insufficient-history error, no growth rate is
\* assigned, and the valuation produces no intrinsic value.  (In v1.py the
\* observations are the annual totals, each of which may be a single payment.)
C16_InsufficientHistory ==
    /\ (GrowthAsked /\ Len(ddm_dividends) < 4) =>
        /\ ddm_ret.kind \in {NotEnoughDividends, NoDividendsFound}
        /\ ddm.growth_rate = None
    /\ (V1Ran /\ Len(v1_annual) < 4) =>
        /\ v1_result.growth = NaN
        /\ v1_result.price = None
        /\ v1_printed # "price"

\* C17: when a required external input is absent (no beta: the object is not
\* built; no dividend: the series is empty; no dividendYield in stock.info)
\* the valuer surfaces a failure and returns no valuation in which a default
\* of zero stands for the absent input
BetaAbsent == ~ddm.built /\ ddm_call = "__post_init__" /\ ddm_ret # NoOutcome
C17_MissingDatumSurfaced ==
    /\ BetaAbsent => ddm_ret = Raise(NoBetaFound)
    /\ (GrowthAsked /\ ddm_dividends = << >>) => ddm_ret = Raise(NoDividendsFound)
    /\ (V1Ran /\ v1_info_yield = None) => v1_result.kind # "dict"

(***************************************************************************)
(* Claims about the horizon, checked under SpecStocks.                     *)
(***************************************************************************)
\* multi_stage_growth_model was called with a horizon that is not positive
NonPositiveHorizon == msg_call.ret # None /\ msg_call.years_initial <= 0

\* C18: a forecast horizon N <= 0 given to a cash-flow valuer is rejected as
\* an InvalidPeriod error outcome; no intrinsic value is returned for it
C18_HorizonRejected == NonPositiveHorizon => ~IsNum(msg_call.ret)

(***************************************************************************)
(* Claims about the state the valuers read, checked under SpecDDM.         *)
(***************************************************************************)
\* C19: each valuer's result depends only on its explicit arguments: whatever
\* call runs in between, calculate_value() and calculate_dividends_eagr() of
\* one DDMValuation object, called again with the same (empty) argument list,
\* return what they returned before
C19_ArgumentsOnly ==
    [][ddm.built =>
        /\ calculate_value(ddm') = calculate_value(ddm)
        /\ calculate_dividends_eagr(ddm', ddm_dividends').ret
               = calculate_dividends_eagr(ddm, ddm_dividends).ret]_vars

(***************************************************************************)
(* Claims about the two bond pricers together, checked under SpecBond.     *)
(***************************************************************************)
\* the number of annual payments between the two dates
AnnualPayments == total_payments(settlement_date, maturity_date, 1)

\* C20: for frequency = 1 and dates that yield total_payments = N, the
\* date-driven pricer returns the price of the direct pricer called with
\* years = N, the same face value and the same rates as decimals, rounded to
\* 2 decimals: the rounding is the only difference
C20_PricersAgree ==
    /\ (bond_call = "calculate_bond_price" /\ frequency = 1) =>
          bond_ret = Round2(calculate_price(face_value, Decimal(yield_rate),
                                            AnnualPayments, Decimal(coupon_rate)))
    /\ (bond_call = "calculate_price" /\ years = AnnualPayments) =>
          Round2(bond_ret) = calculate_bond_price(face_value, coupon_rate, yield_rate,
                                                  settlement_date, maturity_date, 1)

\* C20: the date-driven pricer has priced two annual payments, and the
\* rounding changed the price of the direct pricer
C20_Witness ==
    /\ bond_call = "calculate_bond_price"
    /\ frequency = 1
    /\ AnnualPayments = 2
    /\ face_value # Zero /\ coupon_rate # Zero /\ yield_rate # Zero
    /\ bond_ret = Round2(calculate_price(face_value, Decimal(yield_rate), 2,
                                         Decimal(coupon_rate)))
    /\ bond_ret # calculate_price(face_value, Decimal(yield_rate), 2,
                                  Decimal(coupon_rate))

(***************************************************************************)
(* Claims about the payment count of the date-driven pricer, checked under *)
(* SpecBond.                                                               *)
(***************************************************************************)
\* days from settlement to maturity, and the days of one coupon period
DaysToMaturity == maturity_date - settlement_date
PeriodDays == DaysPerYear \div frequency

\* floor(years * frequency), years = days / 360
FloorPeriods == (DaysToMaturity * frequency) \div DaysPerYear

\* years * frequency cut towards zero
WholePeriods ==
    IF DaysToMaturity >= 0 THEN DaysToMaturity \div PeriodDays
    ELSE 0 - ((0 - DaysToMaturity) \div PeriodDays)

\* the price over n payments and n discounting periods, before the rounding
PriceOver(n) ==
    LET coupon_payment ==
            RDiv(RMul(face_value, Decimal(coupon_rate)), RFromInt(frequency))
        factor == RAdd(One, RDiv(Decimal(yield_rate), RFromInt(frequency)))
    IN  RAdd(DiscountedCoupons(coupon_payment, factor, n),
             RDiv(face_value, RPow(factor, n)))

TwoStageCall ==
    /\ msg_call.ret # None
    /\ msg_call.years_initial >= 1
    /\ RLt(msg_call.g2, msg_call.wacc)

\* the first stage of the claim: FCF0*(1+g1)^t / (1+r)^t over t = 1 .. k
RECURSIVE FirstStage(_, _, _, _)
FirstStage(f, g1, r, k) ==
    IF k <= 0 THEN Zero
    ELSE RAdd(FirstStage(f, g1, r, k - 1),
              RDiv(RMul(f, RPow(RAdd(One, g1), k)), RPow(RAdd(One, r), k)))

\* the terminal block of the claim, g2 applied once
TerminalOnce(f, g1, g2, r, k) ==
    RDiv(RDiv(RMul(RMul(f, RPow(RAdd(One, g1), k)), RAdd(One, g2)), RSub(r, g2)),
         RPow(RAdd(One, r), k))

\* C22: the two-stage valuer returns the sum over t = 1..N1 of
\* FCF0*(1+g1)^t / (1+r)^t plus the terminal block
\* [FCF0*(1+g1)^N1*(1+g2) / (r - g2)] / (1+r)^N1, in which g2 is applied
\* exactly once to the year-N1 cash flow
C22_TerminalGrowthOnce ==
    TwoStageCall =>
        msg_call.ret =
            RAdd(FirstStage(msg_call.fcf, msg_call.g1, msg_call.wacc,
                            msg_call.years_initial),
                 TerminalOnce(msg_call.fcf, msg_call.g1, msg_call.g2, msg_call.wacc,
                              msg_call.years_initial))

(***************************************************************************)
(* Claims about the dividend growth rate, checked under SpecDDM.           *)
(***************************************************************************)
\* the growth rate was derived from a series of at least 4 entries
GrowthDerived == GrowthAsked /\ ddm.built /\ Len(ddm_dividends) >= 4

\* (1 + (latest / start - 1))^4 - 1
Annualized(latest, start) ==
    RSub(RPow(RAdd(One, RSub(RDiv(latest, start), One)), 4), One)

C24_DeleteOnlyConfirmed ==
    (session_app = "bond-final-enhan" /\ refresh.shown = "deleted") => prev_warned

(***************************************************************************)
(* Claims about the leaderboard of FCF.py, checked under SpecBoard.        *)
(***************************************************************************)
\* C25: for any interleaving of submissions from sessions that share the
\* leaderboard file, after each accepted submission the file holds every
\* prediction accepted since the last Refresh Leaderboard, and no two rows
\* of it have the same lowercased name
C25_NoLostPrediction ==
    board_event.kind = "submitted" =>
        /\ \A row \in accepted : \E i \in DOMAIN leaderboard_file : leaderboard_file[i] = row
        /\ \A i, j \in DOMAIN leaderboard_file :
              leaderboard_file[i].Name = leaderboard_file[j].Name => i = j

(***************************************************************************)
(* Claims about the functions on leaderboard.csv, checked under            *)
(* SpecLeaderboard.                                                        *)
(***************************************************************************)
\* C26: after any sequence of save_to_leaderboard and clear_leaderboard calls
\* from an empty leaderboard, the file holds at most one row per (lowercased
\* name, calculation_type) pair, and that row carries the values of the most
\* recent save for that pair
C26_OneRowPerPair ==
    /\ \A i, j \in DOMAIN lb_file :
          (/\ lb_file[i].name = lb_file[j].name
           /\ lb_file[i].calculation_type = lb_file[j].calculation_type) => i = j
    /\ \A i \in DOMAIN lb_file :
          lb_file[i] = lb_latest[<<lb_file[i].name, lb_file[i].calculation_type>>]

(***************************************************************************)
(* Claims about a session of the TVM simulation, checked under SpecSim.    *)
(***************************************************************************)
\* C27: within one session at most one press of Submit writes to the
\* leaderboard; once has_submitted is true it never becomes false again and
\* no later rerun saves an entry; has_submitted is true only if the session
\* saved at least one entry
C27_SubmitOnce ==
    /\ [](st_writes <= 1)
    /\ [](has_submitted => st_saved > 0)
    /\ [][has_submitted => (has_submitted' /\ st_saved' = st_saved)]_vars

(***************************************************************************)
(* Claims about the calls on a DDMValuation object, checked under SpecDDM. *)
(***************************************************************************)
\* dividend and growth_rate are set and discount_rate > growth_rate
ReadyToValue ==
    /\ ddm.dividend # None
    /\ ddm.growth_rate # None
    /\ RLt(ddm.growth_rate, ddm.discount_rate)

\* C28: in every reachable state of a DDMValuation object, calculate_value
\* returns a number only if dividend and growth_rate have both been set and
\* discount_rate > growth_rate; otherwise it raises, and it leaves dividend,
\* growth_rate and discount_rate unchanged.  run_valuation sets dividend and
\* growth_rate before it calls calculate_value.
C28_ValueOnlyWhenReady ==
    /\ []((ddm_call = "calculate_value" /\ ddm_ret.kind = "value") =>
             (ReadyToValue /\ IsNum(ddm_ret.val)))
    /\ []((ddm_call = "calculate_value" /\ ~ReadyToValue) =>
             ddm_ret \in {Raise(DataNotFetched), Raise(DiscountNotAboveGrowth)})
    /\ [][ddm_call' = "calculate_value" => ddm' = ddm]_vars
    /\ [](ddm_call = "run_valuation" =>
             /\ ddm_ret # Raise(DataNotFetched)
             /\ ddm_ret.kind \in {"value", DiscountNotAboveGrowth} =>
                   (ddm.dividend # None /\ ddm.growth_rate # None))

\* C28: calculate_value has returned a number on an object whose data
\* run_valuation had set
C28_Witness ==
    /\ ddm_call = "calculate_value"
    /\ ddm_ret.kind = "value"
    /\ IsNum(ddm_ret.val)
    /\ ReadyToValue

(***************************************************************************)
(* Claims about the view flags of bond-heat, checked under SpecBondViews.  *)
(***************************************************************************)
\* the number of view flags that are set
ViewsShown ==
    Cardinality({f \in {"leaderboard", "heatmap", "scatter"} :
        \/ f = "leaderboard" /\ show_leaderboard
        \/ f = "heatmap" /\ show_heatmap
        \/ f = "scatter" /\ show_scatter})

\* C29: in bond-heat, after any sequence of Show Leaderboard, Show Heatmap,
\* Show Scatter Plot and Refresh Data presses, at most one of
\* show_leaderboard, show_heatmap and show_scatter is true, and after
\* Refresh Data all three are false and the leaderboard table is empty.
C29_OneViewAtATime ==
    session_app = "bond-heat" =>
        /\ ViewsShown <= 1
        /\ button = "Refresh Data" => (ViewsShown = 0 /\ leaderboard = << >>)

\* C29: Show Heatmap was pressed in bond-heat with rows in the table, and
\* only the heatmap is shown now
C29_Witness ==
    /\ session_app = "bond-heat"
    /\ button = "Show Heatmap"
    /\ show_heatmap /\ ~show_leaderboard /\ ~show_scatter
    /\ Len(leaderboard) >= 1

\* C29: Refresh Data was pressed in bond-heat on a table that had rows
C29_Refreshed ==
    /\ session_app = "bond-heat"
    /\ button = "Refresh Data"
    /\ refresh.rows >= 1
    /\ leaderboard = << >>

(***************************************************************************)
(* Claims about the credit score, checked under SpecCredit.                *)
(***************************************************************************)
\* the score as accumulated over the thirteen factors, before max(min(...))
AccumulatedScore ==
    calculate_credit_score_unclamped(factors_of(credit_app), factor_values)

\* C30: for every assignment of the 13 credit factors to integer values
\* 0..10, calculate_credit_score returns a score s with 300 <= s <= 850.
C30_ScoreInRange ==
    credit_app \in CreditApps =>
        /\ \A f \in Factors : factor_values[f] \in SliderValues
        /\ IsNum(fico_score)
        /\ RLe(MinimumScore, fico_score)
        /\ RLe(fico_score, MaximumScore)

\* C30: after a slider move the accumulated score is above 850 and the
\* score returned is 850
C30_Witness ==
    /\ credit_app \in CreditApps
    /\ moved >= 1
    /\ RLt(MaximumScore, AccumulatedScore)
    /\ fico_score = MaximumScore

\* C30: after a slider move the accumulated score is below 300 and the
\* score returned is 300
C30_Floor ==
    /\ credit_app \in CreditApps
    /\ moved >= 1
    /\ RLt(AccumulatedScore, MinimumScore)
    /\ fico_score = MinimumScore

\* C30: after a slider move the score is strictly between 300 and 850
C30_Between ==
    /\ credit_app \in CreditApps
    /\ moved >= 1
    /\ RLt(MinimumScore, fico_score)
    /\ RLt(fico_score, MaximumScore)
    /\ fico_score = AccumulatedScore

====
